---- MODULE Spec2Model ----
(***************************************************************************)
(* Model of the DynDNS reconciliation engine (src/src/application.py),     *)
(* the rows of the persistent store it reads and writes                    *)
(* (src/src/database.py), the provider as seen through the DNS client      *)
(* (src/src/api.py) and the record operations of the configuration menu    *)
(* (src/src/cli.py).                                                       *)
(*                                                                         *)
(* One reconciliation cycle (Application.run_cycle) is a sequence of       *)
(* steps: StepLoadData, StepProcessData, one SyncZone per zone queued for  *)
(* a zone-level sync, one SaveRecord per loaded record, StepFinalize.      *)
(* Menu operations and out-of-band provider changes happen between cycles. *)
(* Timestamps (CURRENT_TIMESTAMP) are the logical clock `now`, which       *)
(* advances once per cycle.                                                *)
(***************************************************************************)
EXTENDS Integers, Sequences, FiniteSets, TLC

(***************************************************************************)
(* Bounds of the model.                                                    *)
(***************************************************************************)
MaxRecords == 2
NumZones == 1
MaxCycles == 2
MaxPid == 2

\* The connection pool: its size (max_connections), the threads that use
\* the store and the connections that can ever be created.
max_connections == 2
NumThreads == 3
MaxConns == 4

\* The provider client: HTTPClient.retries, and max_retries of update_record.
retries == 3
max_retries == 2

(***************************************************************************)
(* Values.                                                                 *)
(***************************************************************************)
NoConn == 0

\* The worker threads a sequence of start() calls can create, and the
\* timeouts of the daemon in units of time: the interval between two
\* cycles, the wait after an exception, the join of stop().
MaxWorkers == 2
cycle_interval == 2
error_wait == 1
join_timeout == 2

Threads == 1..NumThreads
NoIp == "none"
NoId == 0
IPv4Set == {"1.2.3.4", "5.6.7.8"}
IPv6Set == {"2001:db8::1"}

RecIds == 1..MaxRecords
Zones == 1..NumZones
Pids == 1..MaxPid

\* The (zone, name, type) of the record a local id stands for; the store
\* keeps (zone_id, record_name, record_type) unique.  A name is a base
\* label and a count of trailing dots.
ZoneOf(r) == ((r - 1) % NumZones) + 1
TypeOf(r) == IF r % 2 = 1 THEN "A" ELSE "AAAA"
NameOf(r) == [base |-> (r + 1) \div 2, dots |-> IF r % 2 = 0 THEN 1 ELSE 0]

\* str.rstrip('.')
RStrip(name) == [name EXCEPT !.dots = 0]

\* The provider's opaque id of a zone.
ProviderZoneIdOf(z) == z

get_placeholder_ip(record_type) ==
    IF record_type = "A" THEN "0.0.0.0" ELSE "::"

VARIABLES
    sync_checks,      \* config.daemon_sync_checks
    has_cred,         \* zones with a readable dyndns_config row
    old_secret,       \* history: zones whose stored secret was replaced or
                      \* removed after the engine built its client for them
    zones,            \* table zones: zone id -> row
    records,          \* table records: record id -> row
    ip_addresses,     \* table ip_addresses: record id -> row
    dns_updates,      \* table dns_updates (audit log), in insertion order
    provider,         \* the provider's records: provider id -> record
    next_pid,         \* the next id the provider assigns
    network,          \* NetworkData: detected and last known addresses
    enabled_zones,    \* Application.enabled_zones: zone id -> record id -> dict
    provider_clients, \* Application._provider_clients (zone ids)
    zones_to_sync,    \* zones still to sync in _sync_zones_and_refresh_records
    todo,             \* records still to visit in the loop of _step_save_results
    updates_succeeded,
    updates_failed,
    pc,               \* position of the worker inside run_cycle
    result,           \* what the last run_cycle returned
    now,              \* logical clock: number of cycles and forced updates
                      \* started
    api_calls,        \* provider calls issued by the current cycle, in order
    steady,           \* history: the cycle in progress, or the next one, directly
                      \* follows a completed cycle, with no menu operation and no
                      \* provider-side change in between and the same detected
                      \* addresses
    cli_network,      \* the NetworkData of the menu's force update
    cli_records,      \* force update: the records still to process, as loaded
    client_op,        \* ProviderDNSClient: the operation in progress
    attempt,          \* update_record: the attempt of its own loop
    http_attempt,     \* HTTPClient.request_with_retry: the attempt of its loop
    wire,             \* what came back for each request of the operation
    returned,         \* what the operation returned or raised
    pool_queue,       \* Database._pool: the idle connections, in FIFO order
    conn_state,       \* every connection created so far: open, dead or closed
    th_pc,            \* each thread's position inside get_connection
    th_conn,          \* each thread's local variable conn
    th_raised,        \* what each thread's last acquisition raised
    th_blocked,       \* history: the thread found the pool empty when it asked
    db_closed,        \* history: Database.close() has been called
    st_table,         \* the table a generic update helper is applied to
    st_row,           \* the row of that table that the helper is applied to
    st_call,          \* the last call of the helper and its outcome
    enc_call,         \* the last call of the encryption manager and its outcome
    running,          \* DaemonManager.running
    stop_event,       \* DaemonManager._stop_event is set
    daemon_thread,    \* DaemonManager._daemon_thread (NoThread before a start)
    w_pc,             \* where each worker thread is in _daemon_loop
    w_timer,          \* what is left of the timeout of a worker's wait
    w_last,           \* how the last cycle of a worker ended
    ctl_pc,           \* where the thread that calls start() and stop() is
    grace_left,       \* what is left of the timeout of stop()'s join
    d_ret,            \* the last call of start() or stop() and what it returned
    cleaned,          \* application.cleanup() has closed the store
    main_loop,        \* the loop that run_forever runs in the calling thread
    dyndns_config,    \* the rows of table dyndns_config, in rowid order
    cfg_call          \* the last thing that happened to the credential store

dbvars == <<zones, records, ip_addresses, dns_updates>>
provvars == <<provider, next_pid>>
cfgvars == <<sync_checks, has_cred, old_secret>>
cyclevars == <<enabled_zones, zones_to_sync, todo, updates_succeeded, updates_failed>>
menuvars == <<cli_network, cli_records>>
clientvars == <<client_op, attempt, http_attempt, wire, returned>>
poolvars == <<pool_queue, conn_state, th_pc, th_conn, th_raised, th_blocked,
              db_closed>>
storevars == <<st_table, st_row, st_call>>
\* The components that neither the engine nor the menu touches.
encvars == <<enc_call>>
daemonvars == <<running, stop_event, daemon_thread, w_pc, w_timer, w_last, ctl_pc,
                grace_left, d_ret, cleaned, main_loop>>
credvars == <<dyndns_config, cfg_call>>
othervars == <<storevars, encvars, daemonvars, credvars>>
\* What the engine's steps leave alone.
sidevars == <<menuvars, clientvars, poolvars, othervars>>
\* The engine's and the store's state.
enginevars == <<cfgvars, dbvars, provvars, network, cyclevars, provider_clients,
                pc, result, now, api_calls, steady>>
vars == <<sync_checks, has_cred, old_secret, zones, records, ip_addresses, dns_updates,
          provider, next_pid, network, enabled_zones, provider_clients,
          zones_to_sync, todo, updates_succeeded, updates_failed, pc, result,
          now, api_calls, steady, menuvars, clientvars, poolvars, othervars>>

(***************************************************************************)
(* Store accessors.                                                        *)
(***************************************************************************)
get_all_enabled_zones == {z \in Zones : zones[z].enabled}

get_records_by_zone(zone_id, enabled_only) ==
    {r \in DOMAIN records :
        /\ records[r].zone_id = zone_id
        /\ (enabled_only => records[r].enabled)}

get_ip_address(record_id) ==
    IF record_id \in DOMAIN ip_addresses
    THEN ip_addresses[record_id].ip_address
    ELSE NoIp

\* The row add_record inserts.
NewRecordRow(r, provider_record_id, enabled, sync_status) ==
    [id |-> r, zone_id |-> ZoneOf(r), record_name |-> NameOf(r),
     record_type |-> TypeOf(r), provider_record_id |-> provider_record_id,
     enabled |-> enabled, sync_status |-> sync_status]

\* Database.add_record: the table with the new row.
add_record(tbl, r, provider_record_id, enabled, sync_status) ==
    [x \in DOMAIN tbl \cup {r} |->
        IF x = r THEN NewRecordRow(r, provider_record_id, enabled, sync_status)
        ELSE tbl[x]]

\* Database.update_record_provider_id: only the provider id changes.
update_record_provider_id(tbl, r, provider_record_id) ==
    IF r \in DOMAIN tbl
    THEN [tbl EXCEPT ![r].provider_record_id = provider_record_id]
    ELSE tbl

\* Database.update_record(id, provider_record_id=..., sync_status=...)
update_record_sync(tbl, r, provider_record_id, sync_status) ==
    IF r \in DOMAIN tbl
    THEN [tbl EXCEPT ![r].provider_record_id = provider_record_id,
                     ![r].sync_status = sync_status]
    ELSE tbl

\* Database.update_record(id, sync_status=...)
update_record_status_only(tbl, r, sync_status) ==
    IF r \in DOMAIN tbl
    THEN [tbl EXCEPT ![r].sync_status = sync_status]
    ELSE tbl

\* Database.update_ip_address: insert, or update the address and
\* last_checked_at, and last_changed_at only when changed is set.
update_ip_address(tbl, record_id, ip, changed, t) ==
    IF record_id \in DOMAIN tbl
    THEN [tbl EXCEPT ![record_id] =
            [ip_address |-> ip,
             last_checked_at |-> t,
             last_changed_at |-> IF changed THEN t ELSE @.last_changed_at]]
    ELSE [x \in DOMAIN tbl \cup {record_id} |->
            IF x = record_id
            THEN [ip_address |-> ip, last_checked_at |-> t, last_changed_at |-> t]
            ELSE tbl[x]]

\* Database.log_dns_update: one appended row.
log_dns_update(log, record_id, old_ip, new_ip, status, error_message, t) ==
    Append(log, [record_id |-> record_id, old_ip |-> old_ip, new_ip |-> new_ip,
                 status |-> status, error_message |-> error_message,
                 updated_at |-> t])

(***************************************************************************)
(* The provider.                                                           *)
(***************************************************************************)
\* GET /zones/{id}: the provider ids of the zone's records.
ZoneRecords(prov, z) == {p \in DOMAIN prov : prov[p].zone = z}

\* POST /zones/{id}/records: every record of the array gets a fresh id.
RECURSIVE CreateAll(_, _, _)
CreateAll(prov, pid, specs) ==
    IF specs = <<>> THEN prov
    ELSE CreateAll([p \in DOMAIN prov \cup {pid} |->
                        IF p = pid THEN Head(specs) ELSE prov[p]],
                   pid + 1, Tail(specs))

\* The first record among the hits of a search through a listing, NoId if
\* there is none; a listing is in the order of the provider's ids.
FirstMatch(hits) ==
    IF hits = {} THEN NoId
    ELSE CHOOSE p \in hits : \A q \in hits : p <= q

\* The match of _sync_provider_ids: names compared with trailing dots
\* stripped on both sides.
SyncMatch(prov, listing, row) ==
    FirstMatch({p \in listing :
                   /\ RStrip(prov[p].name) = RStrip(row.record_name)
                   /\ prov[p].type = row.record_type})

\* The match of ProviderDNSClient.find_record_id and of the menu's syncs:
\* names compared as they are.
ExactMatch(prov, listing, row) ==
    FirstMatch({p \in listing :
                   /\ prov[p].name = row.record_name
                   /\ prov[p].type = row.record_type})

(***************************************************************************)
(* Initial state: the store holds the configured zones and no record yet;  *)
(* the provider may already hold records under their plain names           *)
(* (provider-first records).                                               *)
(***************************************************************************)
PreExisting(S) ==
    LET n == Cardinality(S)
        ord == CHOOSE f \in [1..n -> S] : \A i, j \in 1..n : i < j => f[i] < f[j]
    IN [p \in 1..n |->
          [zone |-> ZoneOf(ord[p]), name |-> RStrip(NameOf(ord[p])),
           type |-> TypeOf(ord[p]), content |-> get_placeholder_ip(TypeOf(ord[p])),
           disabled |-> FALSE]]

\* The menu is at rest.
MenuInit ==
    /\ cli_network = [ipv4_address |-> NoIp, ipv6_address |-> NoIp]
    /\ cli_records = <<>>

\* The provider client has no operation in progress.
ClientInit ==
    /\ client_op = "none"
    /\ attempt = 0
    /\ http_attempt = 0
    /\ wire = <<>>
    /\ returned = "none"

\* Database.__init__ and _initialize_pool: max_connections connections are
\* created and queued; no thread holds one.
PoolInit ==
    /\ pool_queue = [i \in 1..max_connections |-> i]
    /\ conn_state = [c \in 1..max_connections |-> "open"]
    /\ th_pc = [t \in Threads |-> "out"]
    /\ th_conn = [t \in Threads |-> NoConn]
    /\ th_raised = [t \in Threads |-> "none"]
    /\ th_blocked = [t \in Threads |-> FALSE]
    /\ db_closed = FALSE

\* The rows the generic helpers are applied to.  Column values are
\* abstract (0, 1), but for the two flags, which the helpers normalise.
RecordRow ==
    [id |-> 0, zone_id |-> 0, record_name |-> 0, record_type |-> 0,
     provider_record_id |-> 0, ttl |-> 0, enabled |-> 1, managed |-> 1,
     sync_status |-> 0, last_synced_at |-> 0, updated_at |-> 0]

ZoneRow ==
    [id |-> 0, zone_name |-> 0, provider_zone_id |-> 0, enabled |-> 1,
     updated_at |-> 0]

NoCall == [op |-> "none", keywords |-> {}, ret |-> "none"]

StoreInit ==
    /\ st_table = "records"
    /\ st_row = RecordRow
    /\ st_call = NoCall

\* A string the encryption manager is given or returns: a plain text, or
\* the token Fernet built from a key, an initialisation vector and a text.
Plain(text) == [kind |-> "text", key |-> 0, iv |-> 0, text |-> text]
Token(key, iv, text) == [kind |-> "token", key |-> key, iv |-> iv, text |-> text]

EmptyString == Plain(<<>>)

\* A call that raised returned nothing.
NoOutput == [kind |-> "none", key |-> 0, iv |-> 0, text |-> <<>>]

\* No call of the encryption manager yet.
EncInit == enc_call = [op |-> "none", data |-> EmptyString, raised |-> "none",
                       output |-> NoOutput]

\* No call of the credential store yet, and an empty table.
NoConfigCall == [op |-> "none", zone |-> 0, bulk_id |-> 0, api_key |-> EmptyString,
                 raised |-> "none", output |-> NoOutput]

ConfigInit == dyndns_config = <<>> /\ cfg_call = NoConfigCall

\* DaemonManager.__init__: not running, the event clear, no thread.
NoThread == 0

DaemonInit ==
    /\ running = FALSE
    /\ stop_event = FALSE
    /\ daemon_thread = NoThread
    /\ w_pc = [t \in 1..MaxWorkers |-> "unborn"]
    /\ w_timer = [t \in 1..MaxWorkers |-> 0]
    /\ w_last = [t \in 1..MaxWorkers |-> "none"]
    /\ ctl_pc = "idle"
    /\ grace_left = 0
    /\ d_ret = [op |-> "none", result |-> FALSE]
    /\ cleaned = FALSE
    /\ main_loop = NoThread

\* Application.__init__ on a new store, before any provider client.
EngineInit ==
    /\ sync_checks \in BOOLEAN
    /\ has_cred \in SUBSET Zones
    /\ old_secret = {}
    /\ zones \in [Zones -> [provider_zone_id : {NoId}, enabled : {TRUE}]]
    /\ records = <<>>
    /\ ip_addresses = <<>>
    /\ dns_updates = <<>>
    /\ \E S \in SUBSET RecIds :
          /\ Cardinality(S) <= MaxPid
          /\ provider = PreExisting(S)
          /\ next_pid = Cardinality(S) + 1
    /\ network = [ipv4_address |-> NoIp, ipv6_address |-> NoIp,
                  last_ipv4_address |-> NoIp, last_ipv6_address |-> NoIp]
    /\ enabled_zones = <<>>
    /\ provider_clients = {}
    /\ zones_to_sync = {}
    /\ todo = <<>>
    /\ updates_succeeded = 0
    /\ updates_failed = 0
    /\ pc = "idle"
    /\ result = TRUE
    /\ now = 0
    /\ api_calls = <<>>
    /\ steady = FALSE

Init ==
    /\ MenuInit
    /\ ClientInit
    /\ PoolInit
    /\ StoreInit
    /\ EncInit
    /\ ConfigInit
    /\ DaemonInit
    /\ EngineInit

(***************************************************************************)
(* Helpers of the cycle.                                                   *)
(***************************************************************************)
Truthy(ip) == ip # NoIp

\* An ascending sequence of a set of record ids: the store returns records
\* ORDER BY record_name, record_type, which is the order of the ids here.
RECURSIVE SortedSeq(_)
SortedSeq(S) ==
    IF S = {} THEN <<>>
    ELSE LET m == CHOOSE x \in S : \A y \in S : x <= y
         IN <<m>> \o SortedSeq(S \ {m})

RECURSIVE ConcatZones(_, _)
ConcatZones(ws, zs) ==
    IF zs = <<>> THEN <<>>
    ELSE SortedSeq(DOMAIN ws[Head(zs)]) \o ConcatZones(ws, Tail(zs))

\* The order in which the loops over enabled_zones visit the records.
LoopOrder(ws) == ConcatZones(ws, SortedSeq(DOMAIN ws))

\* The address a record of this type is to point to.
TargetIp(record_type, net) ==
    IF record_type = "A" THEN net.ipv4_address
    ELSE IF record_type = "AAAA" THEN net.ipv6_address
    ELSE NoIp

ApiCall(op, z, r, pid, content, res) ==
    [op |-> op, zone |-> z, record |-> r, pid |-> pid, content |-> content,
     result |-> res]

\* The in-memory copy of a record made by _step_load_data.
LoadedRecord(r) ==
    [id |-> r, zone_id |-> records[r].zone_id,
     record_name |-> records[r].record_name,
     record_type |-> records[r].record_type,
     provider_record_id |-> records[r].provider_record_id,
     enabled |-> records[r].enabled,
     sync_status |-> records[r].sync_status,
     current_ip |-> get_ip_address(r),
     needs_update |-> "unset", old_ip |-> NoIp, new_ip |-> NoIp]

\* record.update(dict(record_row)): the row's columns overwrite the copy.
Refreshed(rec, tbl) ==
    IF rec.id \in DOMAIN tbl
    THEN [rec EXCEPT !.provider_record_id = tbl[rec.id].provider_record_id,
                     !.enabled = tbl[rec.id].enabled,
                     !.sync_status = tbl[rec.id].sync_status]
    ELSE rec

\* What NetworkData.load_current_ip_addresses can detect for a record type
\* at time t: nothing, or an address the host holds.  The host holds its
\* first IPv4 address until the first cycle has run and either address
\* afterwards.
Detectable(record_type, t) ==
    (IF record_type = "A"
     THEN (IF t = 0 THEN {"1.2.3.4"} ELSE IPv4Set)
     ELSE IPv6Set) \cup {NoIp}

(***************************************************************************)
(* Step 1: _step_load_data.  A cycle that detects no address fails here;   *)
(* run_cycle resets the working set and returns False.                     *)
(***************************************************************************)
\* Faulty variant: the load step lacks the check for a detected address.
LoadNeverFails(v4, v6) == FALSE

NoAddressDetected(v4, v6) == ~Truthy(v4) /\ ~Truthy(v6)

StepLoadData ==
    /\ pc = "idle"
    /\ now < MaxCycles
    /\ \E v4 \in Detectable("A", now), v6 \in Detectable("AAAA", now) :
          /\ network' = [network EXCEPT !.ipv4_address = v4, !.ipv6_address = v6]
          /\ IF NoAddressDetected(v4, v6)
             THEN /\ enabled_zones' = <<>>
                  /\ pc' = "idle"
                  /\ result' = FALSE
                  /\ steady' = FALSE
             ELSE /\ enabled_zones' =
                        [z \in get_all_enabled_zones |->
                            [r \in get_records_by_zone(z, TRUE) |-> LoadedRecord(r)]]
                  /\ pc' = "process"
                  /\ steady' = (steady /\ v4 = network.ipv4_address
                                        /\ v6 = network.ipv6_address)
                  /\ UNCHANGED result
    /\ now' = now + 1
    /\ api_calls' = <<>>
    /\ updates_succeeded' = 0
    /\ updates_failed' = 0
    /\ UNCHANGED <<dbvars, provvars, cfgvars, provider_clients, zones_to_sync, todo>>
    /\ UNCHANGED sidevars

(***************************************************************************)
(* Step 2: _step_process_data (the diff).                                  *)
(***************************************************************************)
\* Faulty variant of the diff: a record with a provider id is flagged
\* whenever an address of its type is detected, the cached address is not
\* compared.
ProcessedAlways(rec, net) ==
    IF ~Truthy(TargetIp(rec.record_type, net)) THEN rec
    ELSE [rec EXCEPT !.needs_update = "true", !.old_ip = rec.current_ip,
                     !.new_ip = TargetIp(rec.record_type, net)]

Processed(rec, net) ==
    LET new_ip == TargetIp(rec.record_type, net)
        old_ip == rec.current_ip
    IN IF ~Truthy(new_ip) THEN rec
       ELSE IF rec.provider_record_id = NoId
       THEN [rec EXCEPT !.needs_update = "true", !.old_ip = old_ip, !.new_ip = new_ip]
       ELSE IF old_ip # new_ip
       THEN [rec EXCEPT !.needs_update = "true", !.old_ip = old_ip, !.new_ip = new_ip]
       ELSE [rec EXCEPT !.needs_update = "false"]

\* Faulty variant: a zone is queued for the records that do hold a provider
\* id.
CollectZonesOfLinked(ws) ==
    {z \in DOMAIN ws :
        \E r \in DOMAIN ws[z] :
            /\ ws[z][r].needs_update = "true"
            /\ ws[z][r].provider_record_id # NoId}

\* _collect_zones_needing_sync
CollectZonesNeedingSync(ws) ==
    {z \in DOMAIN ws :
        \E r \in DOMAIN ws[z] :
            /\ ws[z][r].needs_update = "true"
            /\ ws[z][r].provider_record_id = NoId}

\* The diff, and the start of _step_save_results, which queues the zones
\* that need a zone-level sync before the loop over the records.
StepProcessData ==
    /\ pc = "process"
    /\ LET ws == [z \in DOMAIN enabled_zones |->
                    [r \in DOMAIN enabled_zones[z] |->
                        Processed(enabled_zones[z][r], network)]]
       IN /\ enabled_zones' = ws
          /\ zones_to_sync' = CollectZonesNeedingSync(ws)
          /\ todo' = LoopOrder(ws)
          /\ pc' = IF CollectZonesNeedingSync(ws) # {} THEN "sync"
                   ELSE IF LoopOrder(ws) = <<>> THEN "finalize" ELSE "update"
    /\ UNCHANGED <<dbvars, provvars, cfgvars, network, provider_clients,
                   updates_succeeded, updates_failed, result, now, api_calls, steady>>
    /\ UNCHANGED sidevars

(***************************************************************************)
(* Step 3: _step_save_results (converge).  First the zone-level syncs.     *)
(***************************************************************************)
\* Faulty variant: a client is built whatever the credential read returns.
HasClientUnchecked(z) == TRUE

\* _get_provider_client: the cached client, or a new one when the zone's
\* credential can be read.
HasClient(z) == z \in provider_clients \/ z \in has_cred

\* The content _create_missing_records sends for a record.
CreateContent(record_type, net) ==
    IF Truthy(TargetIp(record_type, net))
    THEN TargetIp(record_type, net)
    ELSE get_placeholder_ip(record_type)

\* The array of record specs _create_missing_records posts.
RECURSIVE CreateSpecs(_, _, _)
CreateSpecs(tbl, missing, net) ==
    IF missing = <<>> THEN <<>>
    ELSE LET row == tbl[Head(missing)]
         IN <<[zone |-> row.zone_id, name |-> row.record_name,
               type |-> row.record_type,
               content |-> CreateContent(row.record_type, net),
               disabled |-> ~row.enabled]>>
            \o CreateSpecs(tbl, Tail(missing), net)

RECURSIVE CreateCalls(_, _, _, _)
CreateCalls(tbl, missing, net, res) ==
    IF missing = <<>> THEN <<>>
    ELSE LET row == tbl[Head(missing)]
         IN <<ApiCall("create_records", row.zone_id, row.id, NoId,
                      CreateContent(row.record_type, net), res)>>
            \o CreateCalls(tbl, Tail(missing), net, res)

\* Faulty variant: the matching loop stores no provider id.
BackfillNothing(tbl, prov, listing, rs) == tbl

\* The matching loops of _sync_provider_ids: every record of rs with a
\* match in the listing gets the match's id through
\* update_record_provider_id.
Backfill(tbl, prov, listing, rs) ==
    [r \in DOMAIN tbl |->
        IF r \in rs /\ SyncMatch(prov, listing, tbl[r]) # NoId
        THEN update_record_provider_id(tbl, r, SyncMatch(prov, listing, tbl[r]))[r]
        ELSE tbl[r]]

\* _sync_provider_ids(zone_id), with the provider's answers as parameters:
\* the zone list, the record listing, the creation of the missing records
\* and the listing after the creation (a listing that fails covers both a
\* missing answer and ZoneNotFoundError: the sync gives the zone up alike).
SyncProviderIds(z, zones_ok, list_ok, create_ok, relist_ok) ==
    LET ok == "ok"
        failed == "fail"
        zones1 == [zones EXCEPT ![z].provider_zone_id = ProviderZoneIdOf(z)]
        listing == ZoneRecords(provider, z)
        db_records == get_records_by_zone(z, FALSE)
        records1 == Backfill(records, provider, listing, db_records)
        missing == SortedSeq({r \in db_records :
                                SyncMatch(provider, listing, records[r]) = NoId})
        specs == CreateSpecs(records, missing, network)
        provider2 == CreateAll(provider, next_pid, specs)
        records2 == Backfill(records1, provider2, ZoneRecords(provider2, z),
                             {missing[i] : i \in 1..Len(missing)})
        c_zones(res) == <<ApiCall("get_zones", z, NoId, NoId, NoIp, res)>>
        c_list(res) == <<ApiCall("get_zone_records", z, NoId, NoId, NoIp, res)>>
        c_create(res) == CreateCalls(records, missing, network, res)
        out(zs, rs, pr, np, cs) ==
            [zones |-> zs, records |-> rs, provider |-> pr, next_pid |-> np,
             calls |-> cs]
    IN IF ~HasClient(z)
       THEN out(zones, records, provider, next_pid, <<>>)
       ELSE IF ~zones_ok
       THEN out(zones, records, provider, next_pid, c_zones(failed))
       ELSE IF ~list_ok
       THEN out(zones1, records, provider, next_pid, c_zones(ok) \o c_list(failed))
       ELSE IF missing = <<>>
       THEN out(zones1, records1, provider, next_pid, c_zones(ok) \o c_list(ok))
       ELSE IF ~create_ok
       THEN out(zones1, records1, provider, next_pid,
                c_zones(ok) \o c_list(ok) \o c_create(failed))
       ELSE IF ~relist_ok
       THEN out(zones1, records1, provider2, next_pid + Len(specs),
                c_zones(ok) \o c_list(ok) \o c_create(ok) \o c_list(failed))
       ELSE out(zones1, records2, provider2, next_pid + Len(specs),
                c_zones(ok) \o c_list(ok) \o c_create(ok) \o c_list(ok))

\* How many records the sync of zone z would ask the provider to create.
MissingCount(z) ==
    Cardinality({r \in get_records_by_zone(z, FALSE) :
                    SyncMatch(provider, ZoneRecords(provider, z), records[r]) = NoId})

\* The working set after the refresh of _sync_zones_and_refresh_records.
RefreshZone(ws, z, tbl) ==
    [y \in DOMAIN ws |->
        IF y = z THEN [r \in DOMAIN ws[y] |-> Refreshed(ws[y][r], tbl)]
        ELSE ws[y]]

\* One iteration of the loop of _sync_zones_and_refresh_records, with the
\* provider's answers as parameters.
SyncZoneAnswered(z, zones_ok, list_ok, create_ok, relist_ok) ==
    /\ pc = "sync"
    /\ z \in zones_to_sync
    /\ create_ok => next_pid + MissingCount(z) - 1 <= MaxPid
    /\ \E s \in {SyncProviderIds(z, zones_ok, list_ok, create_ok, relist_ok)} :
          /\ zones' = s.zones
          /\ records' = s.records
          /\ provider' = s.provider
          /\ next_pid' = s.next_pid
          /\ api_calls' = api_calls \o s.calls
          /\ enabled_zones' = RefreshZone(enabled_zones, z, s.records)
    /\ provider_clients' = IF HasClient(z) THEN provider_clients \cup {z}
                           ELSE provider_clients
    /\ zones_to_sync' = zones_to_sync \ {z}
    /\ pc' = IF zones_to_sync \ {z} # {} THEN "sync"
             ELSE IF todo = <<>> THEN "finalize" ELSE "update"
    /\ UNCHANGED <<ip_addresses, dns_updates, cfgvars, network, todo,
                   updates_succeeded, updates_failed, result, now, steady>>
    /\ UNCHANGED sidevars

\* One iteration of the loop, whatever the provider answers.
SyncZone(z) ==
    \E zones_ok, list_ok, create_ok, relist_ok \in BOOLEAN :
        SyncZoneAnswered(z, zones_ok, list_ok, create_ok, relist_ok)

(***************************************************************************)
(* Step 3, the loop over the records: one record per step.                 *)
(***************************************************************************)
\* The provider answers an update of a record it holds with 200 ("ok") and
\* an update of a record it does not hold with 404 RECORD_NOT_FOUND
\* ("rnf"); any call can fail otherwise ("fail": no answer after every
\* retry, 401 twice, 429, 5xx, another 404).
UpdateAnswers(prov, z, pid) ==
    IF pid \in ZoneRecords(prov, z) THEN {"ok", "fail"} ELSE {"rnf", "fail"}

\* Faulty variant: RecordNotFoundError is handled like any other failure,
\* the row is orphaned only after the listing.
OrphanOnlyAfterListing(tbl, rec, answer, verify_ok, absent) ==
    IF sync_checks /\ answer = "fail" /\ verify_ok /\ absent
    THEN update_record_sync(tbl, rec.id, NoId, "orphaned")
    ELSE tbl

\* Faulty variant: the row is marked orphaned but keeps its provider id.
OrphanKeepsId(tbl, rec, answer, verify_ok, absent) ==
    IF sync_checks /\ (answer = "rnf" \/ (answer = "fail" /\ verify_ok /\ absent))
    THEN update_record_status_only(tbl, rec.id, "orphaned")
    ELSE tbl

\* What the engine does to the record's row when the update did not
\* succeed: on RecordNotFoundError, or when the listing fetched after a
\* failed update does not show the record, the row is orphaned; both only
\* with daemon_sync_checks.
OrphanOnFailure(tbl, rec, answer, verify_ok, absent) ==
    IF sync_checks /\ (answer = "rnf" \/ (answer = "fail" /\ verify_ok /\ absent))
    THEN update_record_sync(tbl, rec.id, NoId, "orphaned")
    ELSE tbl

\* Faulty variant: a successful update leaves sync_status alone.
StatusKeptOnSuccess(tbl, rec) == tbl

\* What the engine does to the record's row when the update succeeded.
SyncedOnSuccess(tbl, rec) ==
    IF sync_checks THEN update_record_status_only(tbl, rec.id, "synced")
    ELSE tbl

\* Faulty variant: the update is sent whatever ids are known.
UpdatableAnyway(pid, pz, z) == HasClient(z)

\* The guards before the update call: the record's provider_record_id, the
\* zone's provider_zone_id and a provider client are all there.
Updatable(pid, pz, z) == pid # NoId /\ pz # NoId /\ HasClient(z)

\* _update_provider_record(record, new_ip), with the provider's answers as
\* parameters.
UpdateProviderRecord(rec, new_ip, answer, verify_ok) ==
    LET z == rec.zone_id
        pid == rec.provider_record_id
        pz == zones[z].provider_zone_id
        absent == pid \notin ZoneRecords(provider, z)
        put == ApiCall("update_record", z, rec.id, pid, new_ip, answer)
        verify == ApiCall("get_zone_records", z, NoId, NoId, NoIp,
                          IF verify_ok THEN "ok" ELSE "fail")
        out(okay, rs, pr, cs) ==
            [success |-> okay, records |-> rs, provider |-> pr, calls |-> cs]
    IN IF ~Updatable(pid, pz, z)
       THEN out(FALSE, records, provider, <<>>)
       ELSE IF answer = "ok"
       THEN out(TRUE, SyncedOnSuccess(records, rec),
                [provider EXCEPT ![pid].content = new_ip, ![pid].disabled = FALSE],
                <<put>>)
       ELSE IF answer = "fail" /\ sync_checks
       THEN out(FALSE, OrphanOnFailure(records, rec, answer, verify_ok, absent),
                provider, <<put, verify>>)
       ELSE out(FALSE, OrphanOnFailure(records, rec, answer, verify_ok, absent),
                provider, <<put>>)

\* The branch of the loop for a record that needs no update: only
\* last_checked_at is refreshed, when an address of its type was detected.
RefreshLastChecked(tbl, rec, net, t) ==
    IF Truthy(TargetIp(rec.record_type, net))
    THEN update_ip_address(tbl, rec.id, TargetIp(rec.record_type, net), FALSE, t)
    ELSE tbl

\* The audit entry of a failed update.
FailureMessage(rec) ==
    IF rec.provider_record_id = NoId
    THEN "Missing provider_record_id after sync"
    ELSE "Provider API update failed"

\* Faulty variant: the new address is stored without changed=True.
CommitWithoutBump(rec, t) ==
    [ip_addresses |-> update_ip_address(ip_addresses, rec.id, rec.new_ip, FALSE, t),
     dns_updates |-> log_dns_update(dns_updates, rec.id, rec.old_ip, rec.new_ip,
                                    "success", "", t),
     succeeded |-> updates_succeeded + 1,
     failed |-> updates_failed]

\* The bookkeeping after a successful provider update.
CommitSuccess(rec, t) ==
    [ip_addresses |-> update_ip_address(ip_addresses, rec.id, rec.new_ip, TRUE, t),
     dns_updates |-> log_dns_update(dns_updates, rec.id, rec.old_ip, rec.new_ip,
                                    "success", "", t),
     succeeded |-> updates_succeeded + 1,
     failed |-> updates_failed]

\* Faulty variant: the new address is stored although the update failed.
CommitFailureStoresIp(rec, t) ==
    [ip_addresses |-> update_ip_address(ip_addresses, rec.id, rec.new_ip, TRUE, t),
     dns_updates |-> log_dns_update(dns_updates, rec.id, rec.old_ip, rec.new_ip,
                                    "failed", "Provider API update failed", t),
     succeeded |-> updates_succeeded,
     failed |-> updates_failed + 1]

\* The bookkeeping after a failed update: the except branch of the loop.
CommitFailure(rec, t) ==
    [ip_addresses |-> ip_addresses,
     dns_updates |-> log_dns_update(dns_updates, rec.id, rec.old_ip, rec.new_ip,
                                    "failed", FailureMessage(rec), t),
     succeeded |-> updates_succeeded,
     failed |-> updates_failed + 1]

\* Faulty variant: the first failed record ends the loop.
AbortOnFailure(rest, success) ==
    IF rest = <<>> \/ ~success THEN "finalize" ELSE "update"

\* Where the loop goes after a record: a failure does not leave the loop.
AfterRecord(rest, success) ==
    IF rest = <<>> THEN "finalize" ELSE "update"

SaveRecord ==
    /\ pc = "update"
    /\ todo # <<>>
    /\ LET r == Head(todo)
           rec == enabled_zones[ZoneOf(r)][r]
       IN IF rec.needs_update # "true"
          THEN /\ ip_addresses' = RefreshLastChecked(ip_addresses, rec, network, now)
               /\ pc' = AfterRecord(Tail(todo), TRUE)
               /\ UNCHANGED <<zones, records, dns_updates, provvars, api_calls,
                              updates_succeeded, updates_failed, provider_clients>>
          ELSE \E answer \in UpdateAnswers(provider, rec.zone_id, rec.provider_record_id),
                  verify_ok \in BOOLEAN :
                  LET u == UpdateProviderRecord(rec, rec.new_ip, answer, verify_ok)
                      c == IF u.success THEN CommitSuccess(rec, now)
                           ELSE CommitFailure(rec, now)
                  IN /\ records' = u.records
                     /\ provider' = u.provider
                     /\ api_calls' = api_calls \o u.calls
                     /\ ip_addresses' = c.ip_addresses
                     /\ dns_updates' = c.dns_updates
                     /\ updates_succeeded' = c.succeeded
                     /\ updates_failed' = c.failed
                     /\ provider_clients' =
                            IF rec.provider_record_id # NoId
                               /\ zones[rec.zone_id].provider_zone_id # NoId
                               /\ HasClient(rec.zone_id)
                            THEN provider_clients \cup {rec.zone_id}
                            ELSE provider_clients
                     /\ pc' = AfterRecord(Tail(todo), u.success)
                     /\ UNCHANGED <<zones, next_pid>>
    /\ todo' = Tail(todo)
    /\ UNCHANGED <<cfgvars, network, enabled_zones, zones_to_sync, result, now,
                   steady>>
    /\ UNCHANGED sidevars

(***************************************************************************)
(* Step 4: _step_finalize; run_cycle returns True.                         *)
(***************************************************************************)
StepFinalize ==
    /\ pc = "finalize"
    /\ network' = [network EXCEPT !.last_ipv4_address = network.ipv4_address,
                                  !.last_ipv6_address = network.ipv6_address]
    /\ enabled_zones' = <<>>
    /\ pc' = "idle"
    /\ result' = TRUE
    /\ steady' = TRUE
    /\ UNCHANGED <<dbvars, provvars, cfgvars, provider_clients, zones_to_sync,
                   todo, updates_succeeded, updates_failed, now, api_calls>>
    /\ UNCHANGED sidevars

(***************************************************************************)
(* The environment: a record is deleted at the provider out-of-band.       *)
(* Changes from outside the engine are followed while a cycle can still    *)
(* start (now < MaxCycles) and take place between two cycles.              *)
(***************************************************************************)
ProviderDeleteOutOfBand(p) ==
    /\ pc = "idle"
    /\ now < MaxCycles
    /\ p \in DOMAIN provider
    /\ provider' = [q \in DOMAIN provider \ {p} |-> provider[q]]
    /\ steady' = FALSE
    /\ UNCHANGED <<dbvars, next_pid, cfgvars, network, cyclevars,
                   provider_clients, pc, result, now, api_calls>>
    /\ UNCHANGED sidevars

(***************************************************************************)
(* The import of a configuration file: ConfigImporter._process_records     *)
(* adds a record that the store does not hold with add_record's defaults.  *)
(***************************************************************************)
ImportRecord(r) ==
    /\ pc = "idle"
    /\ now < MaxCycles
    /\ r \notin DOMAIN records
    /\ records' = add_record(records, r, NoId, TRUE, "synced")
    /\ steady' = FALSE
    /\ UNCHANGED <<zones, ip_addresses, dns_updates, provvars, cfgvars, network,
                   cyclevars, provider_clients, pc, result, now, api_calls>>
    /\ UNCHANGED sidevars

(***************************************************************************)
(* The menu's "add record" (ConfigMenu.add_record).                        *)
(***************************************************************************)
\* ConfigMenu._sync_zone_id: the zone's provider id is fetched and stored.
SyncZoneId(zs, z, zones_ok) ==
    IF zones_ok THEN [zs EXCEPT ![z].provider_zone_id = ProviderZoneIdOf(z)]
    ELSE zs

\* ConfigMenu._get_provider_with_credentials(zone, require_zone_id=True):
\* whether a client is returned, and the zones table afterwards.
GetProviderWithCredentials(z, zones_ok) ==
    IF z \notin has_cred THEN [client |-> FALSE, zones |-> zones]
    ELSE IF zones[z].provider_zone_id # NoId THEN [client |-> TRUE, zones |-> zones]
    ELSE [client |-> zones_ok, zones |-> SyncZoneId(zones, z, zones_ok)]

\* ProviderDNSClient.find_record_id: the first record of the listing with
\* this very name and type; None when the listing fails or is empty.
find_record_id(prov, z, key, list_ok) ==
    IF list_ok THEN ExactMatch(prov, ZoneRecords(prov, z), key) ELSE NoId

\* ConfigMenu._sync_zone_with_provider: every local record of the zone with
\* a match (names compared as they are) gets the match's id and 'synced';
\* a record without a match that holds a provider id loses it and becomes
\* 'orphaned'.  Nothing happens without provider_zone_id or a non-empty
\* listing.
SyncZoneWithProvider(tbl, prov, z, provider_zone_id, list_ok) ==
    IF provider_zone_id = NoId \/ ~list_ok \/ ZoneRecords(prov, z) = {}
    THEN tbl
    ELSE [r \in DOMAIN tbl |->
            IF tbl[r].zone_id # z THEN tbl[r]
            ELSE IF ExactMatch(prov, ZoneRecords(prov, z), tbl[r]) # NoId
            THEN update_record_sync(tbl, r,
                     ExactMatch(prov, ZoneRecords(prov, z), tbl[r]), "synced")[r]
            ELSE IF tbl[r].provider_record_id # NoId
            THEN update_record_sync(tbl, r, NoId, "orphaned")[r]
            ELSE tbl[r]]

IsPlaceholder(ip) == ip \in {"0.0.0.0", "::"}

\* ConfigMenu.add_record for the record r, with the provider's answers and
\* the detected address as parameters.
CliAddRecordOutcome(r, zones_ok, find_ok, list_ok, ip, create_ok, presync_ok, find2_ok) ==
    LET z == ZoneOf(r)
        g == GetProviderWithCredentials(z, zones_ok)
        key == [record_name |-> NameOf(r), record_type |-> TypeOf(r)]
        existing == find_record_id(provider, z, key, find_ok)
        content == IF Truthy(ip) THEN ip ELSE get_placeholder_ip(TypeOf(r))
        spec == [zone |-> z, name |-> NameOf(r), type |-> TypeOf(r),
                 content |-> content, disabled |-> FALSE]
        provider2 == CreateAll(provider, next_pid, <<spec>>)
        records2 == SyncZoneWithProvider(records, provider2, z,
                                         g.zones[z].provider_zone_id, presync_ok)
        pid2 == find_record_id(provider2, z, key, find2_ok)
        out(rs, ips, pr, np) ==
            [zones |-> g.zones, records |-> rs, ip_addresses |-> ips,
             provider |-> pr, next_pid |-> np]
    IN IF ~g.client
       THEN out(add_record(records, r, NoId, TRUE, "local_only"), ip_addresses,
                provider, next_pid)
       ELSE IF existing # NoId
       THEN out(add_record(records, r, existing, TRUE, "synced"),
                IF list_ok /\ ~IsPlaceholder(provider[existing].content)
                THEN update_ip_address(ip_addresses, r, provider[existing].content,
                                       FALSE, now)
                ELSE ip_addresses,
                provider, next_pid)
       ELSE IF ~create_ok
       THEN out(records, ip_addresses, provider, next_pid)
       ELSE out(add_record(records2, r, pid2, TRUE, "synced"),
                IF ~IsPlaceholder(content)
                THEN update_ip_address(ip_addresses, r, content, FALSE, now)
                ELSE ip_addresses,
                provider2, next_pid + 1)

\* The menu builds a record's name from a label and the zone's name: it
\* carries no trailing dot.
CliAddRecord(r) ==
    /\ pc = "idle"
    /\ now < MaxCycles
    /\ r \notin DOMAIN records
    /\ NameOf(r).dots = 0
    /\ \E zones_ok, find_ok, list_ok, create_ok, presync_ok, find2_ok \in BOOLEAN,
          ip \in Detectable(TypeOf(r), now) :
          /\ create_ok => next_pid <= MaxPid
          /\ LET a == CliAddRecordOutcome(r, zones_ok, find_ok, list_ok, ip,
                                          create_ok, presync_ok, find2_ok)
             IN /\ zones' = a.zones
                /\ records' = a.records
                /\ ip_addresses' = a.ip_addresses
                /\ provider' = a.provider
                /\ next_pid' = a.next_pid
    /\ steady' = FALSE
    /\ UNCHANGED <<dns_updates, cfgvars, network, cyclevars, provider_clients,
                   pc, result, now, api_calls>>
    /\ UNCHANGED sidevars

(***************************************************************************)
(* The menu's "force DNS update" (ConfigMenu.force_dns_update): the        *)
(* optional pre-sync, the detection of the addresses and the zone-level    *)
(* part of _process_all_zones are one step (ForceDnsUpdate), the loop of   *)
(* _process_zone_records is one step per record (ForceRecord).  No other   *)
(* operation runs in between.                                              *)
(***************************************************************************)
\* The answers to enumerate for an input of an operation: every answer of
\* the set when the operation's path asks for the input, one fixed answer
\* when it does not.
Answers(asked, S, unasked) == IF asked THEN S ELSE {unasked}

\* The pre-sync loop over the zones zs: a zone whose client is returned by
\* _get_provider_with_credentials(require_zone_id=True) goes through
\* _sync_zone_with_provider.
RECURSIVE PreSync(_, _, _, _, _)
PreSync(zs, tbl, zseq, zones_ok, list_ok) ==
    IF zseq = <<>> THEN [zones |-> zs, records |-> tbl]
    ELSE LET z == Head(zseq)
             g == GetProviderWithCredentials(z, zones_ok[z])
             zs1 == [zs EXCEPT ![z] = g.zones[z]]
             tbl1 == IF g.client
                     THEN SyncZoneWithProvider(tbl, provider, z,
                                               zs1[z].provider_zone_id, list_ok[z])
                     ELSE tbl
         IN PreSync(zs1, tbl1, Tail(zseq), zones_ok, list_ok)

\* The zones _process_all_zones does not skip, given the zones table it
\* reads and the answers to _sync_zone_id: a zone needs a credential and a
\* provider_zone_id, which is fetched when it is missing.
ForceZones(zs, zones_ok) ==
    {z \in Zones :
        /\ zs[z].enabled
        /\ z \in has_cred
        /\ (zs[z].provider_zone_id # NoId \/ zones_ok[z])}

\* The zones table after _process_all_zones' calls of _sync_zone_id.
ForceZoneIds(zs, zones_ok) ==
    [z \in Zones |->
        IF zs[z].enabled /\ z \in has_cred /\ zs[z].provider_zone_id = NoId
        THEN SyncZoneId(zs, z, zones_ok[z])[z]
        ELSE zs[z]]

\* Some zone with a credential has no provider_zone_id in the table zs:
\* the menu will ask the provider for its zones.
LacksZoneId(zs) == \E z \in has_cred : zs[z].provider_zone_id = NoId

\* row_to_dict(record_row): the copy of a record _process_zone_records
\* works on.
ForceLoaded(tbl, r) ==
    [id |-> r, zone_id |-> tbl[r].zone_id, record_name |-> tbl[r].record_name,
     record_type |-> tbl[r].record_type,
     provider_record_id |-> tbl[r].provider_record_id,
     enabled |-> tbl[r].enabled]

RECURSIVE ForceLoad(_, _)
ForceLoad(tbl, rs) ==
    IF rs = <<>> THEN <<>>
    ELSE <<ForceLoaded(tbl, Head(rs))>> \o ForceLoad(tbl, Tail(rs))

ForceDnsUpdate ==
    /\ pc = "idle"
    /\ now < MaxCycles
    /\ \E presync \in BOOLEAN,
          v4 \in Detectable("A", now), v6 \in Detectable("AAAA", now) :
       \E zones_ok \in Answers(presync /\ LacksZoneId(zones), [Zones -> BOOLEAN],
                               [z \in Zones |-> FALSE]),
          list_ok \in Answers(presync /\ has_cred # {}, [Zones -> BOOLEAN],
                              [z \in Zones |-> FALSE]) :
       \E zones2_ok \in Answers(/\ ~NoAddressDetected(v4, v6)
                                /\ LacksZoneId(
                                      IF presync
                                      THEN PreSync(zones, records,
                                                   SortedSeq(get_all_enabled_zones),
                                                   zones_ok, list_ok).zones
                                      ELSE zones),
                                [Zones -> BOOLEAN], [z \in Zones |-> FALSE]) :
          LET s == IF presync
                   THEN PreSync(zones, records, SortedSeq(get_all_enabled_zones),
                                zones_ok, list_ok)
                   ELSE [zones |-> zones, records |-> records]
              visited == ForceZones(s.zones, zones2_ok)
              loaded == ForceLoad(s.records,
                            SortedSeq({r \in DOMAIN s.records :
                                          /\ s.records[r].zone_id \in visited
                                          /\ s.records[r].enabled}))
          IN /\ records' = s.records
             /\ IF NoAddressDetected(v4, v6)
                THEN /\ zones' = s.zones
                     /\ cli_records' = <<>>
                     /\ UNCHANGED <<cli_network, pc>>
                ELSE /\ zones' = ForceZoneIds(s.zones, zones2_ok)
                     /\ cli_records' = loaded
                     /\ IF loaded = <<>>
                        THEN UNCHANGED <<cli_network, pc>>
                        ELSE /\ cli_network' = [ipv4_address |-> v4,
                                                ipv6_address |-> v6]
                             /\ pc' = "force"
    /\ now' = now + 1
    /\ api_calls' = <<>>
    /\ steady' = FALSE
    /\ UNCHANGED <<ip_addresses, dns_updates, provvars, cfgvars, network, cyclevars,
                   provider_clients, result, clientvars, poolvars, othervars>>

\* ConfigMenu._ensure_provider_record_id for the loaded record rec: the
\* record's provider id afterwards (NoId when it fails), and the store and
\* the provider afterwards.  A record that find_record_id does not find is
\* created by _create_provider_record, with the placeholder as its content.
EnsureProviderRecordId(rec, find_ok, create_ok, find2_ok) ==
    LET z == rec.zone_id
        found == find_record_id(provider, z, rec, find_ok)
        content == get_placeholder_ip(rec.record_type)
        spec == [zone |-> z, name |-> rec.record_name, type |-> rec.record_type,
                 content |-> content, disabled |-> ~rec.enabled]
        provider1 == CreateAll(provider, next_pid, <<spec>>)
        found2 == find_record_id(provider1, z, rec, find2_ok)
        create(res) == <<ApiCall("create_records", z, rec.id, NoId, content, res)>>
        out(pid, rs, pr, np, cs) ==
            [pid |-> pid, records |-> rs, provider |-> pr, next_pid |-> np,
             calls |-> cs]
    IN IF rec.provider_record_id # NoId
       THEN out(rec.provider_record_id, records, provider, next_pid, <<>>)
       ELSE IF found # NoId
       THEN out(found, update_record_provider_id(records, rec.id, found),
                provider, next_pid, <<>>)
       ELSE IF ~create_ok
       THEN out(NoId, records, provider, next_pid, create("fail"))
       ELSE out(found2,
                IF found2 # NoId
                THEN update_record_provider_id(records, rec.id, found2)
                ELSE records,
                provider1, next_pid + 1, create("ok"))

\* How many local records of the zone _sync_zone_with_provider matches.
SyncedCount(tbl, prov, z, list_ok) ==
    IF ~list_ok THEN 0
    ELSE Cardinality({r \in DOMAIN tbl :
                         /\ tbl[r].zone_id = z
                         /\ ExactMatch(prov, ZoneRecords(prov, z), tbl[r]) # NoId})

\* ConfigMenu._update_dns_record for the record rec, which holds the
\* provider id pid, after _ensure_provider_record_id left the store and the
\* provider as in e.
UpdateDnsRecord(rec, e, old_ip, new_ip, answer, recreate_ok, resync_ok) ==
    LET z == rec.zone_id
        pid == e.pid
        put == ApiCall("update_record", z, rec.id, pid, new_ip, answer)
        spec == [zone |-> z, name |-> rec.record_name, type |-> rec.record_type,
                 content |-> new_ip, disabled |-> ~rec.enabled]
        create(res) == ApiCall("create_records", z, rec.id, NoId, new_ip, res)
        records1 == update_record_provider_id(e.records, rec.id, NoId)
        provider2 == CreateAll(e.provider, e.next_pid, <<spec>>)
        records2 == SyncZoneWithProvider(records1, provider2, z,
                                         zones[z].provider_zone_id, resync_ok)
        stored == update_ip_address(ip_addresses, rec.id, new_ip, TRUE, now)
        success == log_dns_update(dns_updates, rec.id, old_ip, new_ip,
                                  "success", "", now)
        failed(msg) == log_dns_update(dns_updates, rec.id, old_ip, new_ip,
                                      "failed", msg, now)
        out(rs, ips, log, pr, np, cs) ==
            [records |-> rs, ip_addresses |-> ips, dns_updates |-> log,
             provider |-> pr, next_pid |-> np, calls |-> e.calls \o cs]
    IN IF answer = "ok"
       THEN out(e.records, stored, success,
                [e.provider EXCEPT ![pid].content = new_ip, ![pid].disabled = FALSE],
                e.next_pid, <<put>>)
       ELSE IF answer = "fail"
       THEN out(e.records, ip_addresses, failed("Provider API update failed"),
                e.provider, e.next_pid, <<put>>)
       ELSE IF ~recreate_ok
       THEN out(records1, ip_addresses,
                failed("Failed to recreate record at provider"),
                e.provider, e.next_pid, <<put, create("fail")>>)
       ELSE IF SyncedCount(records1, provider2, z, resync_ok) = 0
       THEN out(records2, ip_addresses,
                failed("Failed to sync after record recreation"),
                provider2, e.next_pid + 1, <<put, create("ok")>>)
       ELSE out(records2, stored, success, provider2, e.next_pid + 1,
                <<put, create("ok")>>)

\* One iteration of the loop of _process_zone_records.
ForceRecord ==
    /\ pc = "force"
    /\ cli_records # <<>>
    /\ LET rec == Head(cli_records)
           new_ip == TargetIp(rec.record_type, cli_network)
           old_ip == get_ip_address(rec.id)
       IN IF ~Truthy(new_ip)
          THEN UNCHANGED <<records, ip_addresses, dns_updates, provvars, api_calls>>
          ELSE \E find_ok \in Answers(rec.provider_record_id = NoId, BOOLEAN, FALSE) :
               \E create_ok \in Answers(/\ rec.provider_record_id = NoId
                                        /\ find_record_id(provider, rec.zone_id, rec,
                                                          find_ok) = NoId,
                                        BOOLEAN, FALSE) :
               \E find2_ok \in Answers(create_ok, BOOLEAN, FALSE),
                  answer \in {"ok", "rnf", "fail"} :
               \E recreate_ok \in Answers(answer = "rnf", BOOLEAN, FALSE) :
               \E resync_ok \in Answers(recreate_ok, BOOLEAN, FALSE) :
                  LET e == EnsureProviderRecordId(rec, find_ok, create_ok, find2_ok)
                      u == UpdateDnsRecord(rec, e, old_ip, new_ip, answer,
                                           recreate_ok, resync_ok)
                  IN /\ e.next_pid <= MaxPid + 1
                     /\ IF e.pid = NoId
                        THEN /\ answer = "fail"
                             /\ records' = e.records
                             /\ provider' = e.provider
                             /\ next_pid' = e.next_pid
                             /\ api_calls' = api_calls \o e.calls
                             /\ UNCHANGED <<ip_addresses, dns_updates>>
                        ELSE /\ answer \in UpdateAnswers(e.provider, rec.zone_id, e.pid)
                             /\ u.next_pid <= MaxPid + 1
                             /\ records' = u.records
                             /\ ip_addresses' = u.ip_addresses
                             /\ dns_updates' = u.dns_updates
                             /\ provider' = u.provider
                             /\ next_pid' = u.next_pid
                             /\ api_calls' = api_calls \o u.calls
    /\ cli_records' = Tail(cli_records)
    /\ IF Tail(cli_records) = <<>>
       THEN /\ pc' = "idle"
            /\ cli_network' = [ipv4_address |-> NoIp, ipv6_address |-> NoIp]
       ELSE UNCHANGED <<pc, cli_network>>
    /\ UNCHANGED <<zones, cfgvars, network, cyclevars, provider_clients, result,
                   now, steady, clientvars, poolvars,
                   othervars>>

(***************************************************************************)
(* The menu's "edit record", choice "Enable/Disable record"                *)
(* (ConfigMenu.edit_record); the TTL is not part of the model.             *)
(***************************************************************************)
\* Database.update_record(id, enabled=...)
update_record_enabled(tbl, r, enabled) ==
    IF r \in DOMAIN tbl THEN [tbl EXCEPT ![r].enabled = enabled] ELSE tbl

\* Database.update_record(id, enabled=..., provider_record_id=...,
\* sync_status=...)
update_record_all(tbl, r, enabled, provider_record_id, sync_status) ==
    IF r \in DOMAIN tbl
    THEN [tbl EXCEPT ![r].enabled = enabled,
                     ![r].provider_record_id = provider_record_id,
                     ![r].sync_status = sync_status]
    ELSE tbl

\* ConfigMenu._get_current_or_detect_ip: the cached address, else the
\* detected one, else the placeholder.
GetCurrentOrDetectIp(r, detected) ==
    IF Truthy(get_ip_address(r)) THEN get_ip_address(r)
    ELSE IF Truthy(detected) THEN detected
    ELSE get_placeholder_ip(TypeOf(r))

\* The ENABLE branch: the record is created at the provider, the zone is
\* synced, the new provider id is looked up and the row is updated.
EnableRecord(r, g, detected, create_ok, list_ok, find_ok) ==
    LET z == ZoneOf(r)
        spec == [zone |-> z, name |-> records[r].record_name,
                 type |-> records[r].record_type,
                 content |-> GetCurrentOrDetectIp(r, detected), disabled |-> FALSE]
        provider2 == CreateAll(provider, next_pid, <<spec>>)
        records2 == SyncZoneWithProvider(records, provider2, z,
                                         g.zones[z].provider_zone_id, list_ok)
        pid2 == find_record_id(provider2, z, records[r], find_ok)
    IN IF ~create_ok
       THEN [records |-> records, provider |-> provider, next_pid |-> next_pid]
       ELSE [records |-> update_record_all(records2, r, TRUE, pid2, "synced"),
             provider |-> provider2, next_pid |-> next_pid + 1]

\* The DISABLE branch: a record with a provider id is deleted at the
\* provider (delete_record returns False when that fails); the row is kept,
\* loses its provider id and becomes 'local_only' either way.
DisableRecord(r, delete_ok) ==
    LET pid == records[r].provider_record_id
    IN [records |-> update_record_all(records, r, FALSE, NoId, "local_only"),
        provider |-> IF pid \in DOMAIN provider /\ delete_ok
                     THEN [q \in DOMAIN provider \ {pid} |-> provider[q]]
                     ELSE provider,
        next_pid |-> next_pid]

EditRecord(r) ==
    /\ pc = "idle"
    /\ now < MaxCycles
    /\ r \in DOMAIN records
    /\ \E zones_ok \in Answers(/\ ZoneOf(r) \in has_cred
                                /\ zones[ZoneOf(r)].provider_zone_id = NoId,
                                BOOLEAN, TRUE) :
       \E go_on \in Answers(~GetProviderWithCredentials(ZoneOf(r), zones_ok).client,
                            BOOLEAN, FALSE),
          create_ok \in Answers(/\ GetProviderWithCredentials(ZoneOf(r), zones_ok).client
                                /\ ~records[r].enabled,
                                BOOLEAN, FALSE),
          delete_ok \in Answers(/\ GetProviderWithCredentials(ZoneOf(r), zones_ok).client
                                /\ records[r].enabled
                                /\ records[r].provider_record_id # NoId,
                                BOOLEAN, FALSE) :
       \E list_ok, find_ok \in Answers(create_ok, BOOLEAN, FALSE),
          detected \in Answers(create_ok /\ ~Truthy(get_ip_address(r)),
                               Detectable(TypeOf(r), now), NoIp) :
          LET new_status == ~records[r].enabled
              g == GetProviderWithCredentials(ZoneOf(r), zones_ok)
              o == IF ~g.client
                   THEN [records |-> IF go_on
                                     THEN update_record_enabled(records, r, new_status)
                                     ELSE records,
                         provider |-> provider, next_pid |-> next_pid]
                   ELSE IF new_status
                   THEN EnableRecord(r, g, detected, create_ok, list_ok, find_ok)
                   ELSE DisableRecord(r, delete_ok)
          IN /\ o.next_pid <= MaxPid + 1
             /\ zones' = g.zones
             /\ records' = o.records
             /\ provider' = o.provider
             /\ next_pid' = o.next_pid
    /\ steady' = FALSE
    /\ UNCHANGED <<ip_addresses, dns_updates, cfgvars, network, cyclevars,
                   provider_clients, pc, result, now, api_calls, sidevars>>

Next ==
    \/ StepLoadData
    \/ StepProcessData
    \/ \E z \in Zones : SyncZone(z)
    \/ SaveRecord
    \/ StepFinalize
    \/ \E p \in Pids : ProviderDeleteOutOfBand(p)
    \/ \E r \in RecIds : ImportRecord(r)
    \/ \E r \in RecIds : CliAddRecord(r)

Spec == Init /\ [][Next]_vars

\* The menu on its own: its record operations against the store and the
\* provider while no reconciliation cycle runs, and out-of-band deletions.
MenuNext ==
    \/ \E r \in RecIds : ImportRecord(r)
    \/ \E r \in RecIds : CliAddRecord(r)
    \/ \E p \in Pids : ProviderDeleteOutOfBand(p)
    \/ \E r \in RecIds : EditRecord(r)
    \/ ForceDnsUpdate
    \/ ForceRecord

\* The menu does not read daemon_sync_checks.
MenuSpecInit == Init /\ sync_checks = TRUE

MenuSpec == MenuSpecInit /\ [][MenuNext]_vars

(***************************************************************************)
(* Vocabulary of the properties.                                           *)
(***************************************************************************)
\* The records loaded by the cycle in progress, and a record's working copy.
Loaded == UNION {DOMAIN enabled_zones[z] : z \in DOMAIN enabled_zones}
Rec(r) == enabled_zones[ZoneOf(r)][r]

\* The provider calls a step adds to the cycle's calls.
NewCalls == SubSeq(api_calls', Len(api_calls) + 1, Len(api_calls'))

\* The loop's step for the record at the head of todo issues the update
\* call, and the provider answers it with ...
UpdateAnswered(answer) ==
    /\ pc = "update"
    /\ NewCalls # <<>>
    /\ NewCalls[1].op = "update_record"
    /\ NewCalls[1].result = answer

\* The step appends exactly one audit entry, of this status, for record r.
OneAuditEntry(r, status, error_message) ==
    dns_updates' = Append(dns_updates,
        [record_id |-> r, old_ip |-> Rec(r).old_ip, new_ip |-> Rec(r).new_ip,
         status |-> status, error_message |-> error_message, updated_at |-> now])

\* The loop goes on with the next record, or the cycle with its last step.
CycleGoesOn ==
    /\ pc' = IF Tail(todo) = <<>> THEN "finalize" ELSE "update"
    /\ todo' = Tail(todo)
    /\ result' = result

AuditedThisCycle(r, status) ==
    \E i \in 1..Len(dns_updates) :
        /\ dns_updates[i].record_id = r
        /\ dns_updates[i].status = status
        /\ dns_updates[i].updated_at = now

(***************************************************************************)
(* The daemon under the conditions of convergence.  The store and the      *)
(* provider are set up by menu operations and out-of-band deletions before *)
(* the first cycle; from then on the daemon's loop (Daemon._daemon_loop)      *)
(* keeps calling run_cycle, every zone has a readable credential, every    *)
(* cycle detects what the first one detected, and the provider answers     *)
(* every call: an update of a record it does not hold with 404, every      *)
(* other call with success.  ProviderDNSClient.update_record turns the 404 *)
(* into a return of False, a client that raises RecordNotFoundError is     *)
(* allowed for as well.                                                    *)
(***************************************************************************)
\* The step's provider calls were all answered: none failed but the update
\* of a record the provider does not hold.
ProviderAnswers ==
    \A i \in 1..Len(NewCalls) :
        NewCalls[i].result = "fail" =>
            /\ NewCalls[i].op = "update_record"
            /\ NewCalls[i].pid \notin ZoneRecords(provider, NewCalls[i].zone)

\* The cycle detects the addresses the cycle before it detected.
SameAddresses ==
    now > 0 => /\ network'.ipv4_address = network.ipv4_address
               /\ network'.ipv6_address = network.ipv6_address

SetUp ==
    /\ now = 0
    /\ \/ \E r \in RecIds : ImportRecord(r)
       \/ \E r \in RecIds : CliAddRecord(r)
       \/ \E p \in Pids : ProviderDeleteOutOfBand(p)

ReliableCycle ==
    \/ StepLoadData /\ SameAddresses
    \/ StepProcessData
    \/ \E z \in Zones : SyncZoneAnswered(z, TRUE, TRUE, TRUE, TRUE)
    \/ SaveRecord /\ ProviderAnswers
    \/ StepFinalize

LiveInit == Init /\ has_cred = Zones

LiveNext == SetUp \/ ReliableCycle

\* The daemon's loop runs the next step of the cycle, and the next cycle,
\* as long as there is one.
LiveSpec == LiveInit /\ [][LiveNext]_vars /\ WF_vars(ReliableCycle)

(***************************************************************************)
(* C1: whenever no converge phase is under way (after every converge phase *)
(* and after every record-creating or record-editing operation), every     *)
(* record whose sync_status is 'synced' has a non-null provider_record_id. *)
(***************************************************************************)
C1_SyncedHasProviderId ==
    pc \in {"idle", "finalize"} =>
        \A r \in DOMAIN records :
            records[r].sync_status = "synced" => records[r].provider_record_id # NoId

(***************************************************************************)
(* C3: a record becomes 'orphaned' only in a step in which the provider    *)
(* holds no record under the record's provider_record_id (the provider has *)
(* confirmed that the record does not exist).                              *)
(***************************************************************************)
C3_OrphanedOnlyWhenAbsent ==
    [][\A r \in DOMAIN records :
          (records[r].sync_status # "orphaned" /\ records'[r].sync_status = "orphaned")
              => records[r].provider_record_id \notin DOMAIN provider]_vars

C10_NoAddressFailsInLoad ==
    [][(pc = "idle" /\ now' = now + 1
        /\ network'.ipv4_address = NoIp /\ network'.ipv6_address = NoIp)
          => /\ pc' = "idle"
             /\ result' = FALSE
             /\ api_calls' = <<>>
             /\ UNCHANGED <<zones, records, ip_addresses, dns_updates, provider,
                            next_pid>>]_vars

C10_Witness ==
    /\ pc = "idle"
    /\ now >= 1
    /\ result = FALSE
    /\ network.ipv4_address = NoIp
    /\ network.ipv6_address = NoIp
    /\ records # <<>>
    /\ api_calls = <<>>

(***************************************************************************)
(* Vocabulary of the cycle-level properties.                               *)
(***************************************************************************)
\* The cycle in progress issued a call of this kind for record r that the
\* provider answered with ...
Called(op, r, answer) ==
    \E i \in 1..Len(api_calls) :
        /\ api_calls[i].op = op
        /\ api_calls[i].record = r
        /\ api_calls[i].result = answer

\* Every provider call of the cycle in progress succeeded.
AllCallsSucceeded == \A i \in 1..Len(api_calls) : api_calls[i].result = "ok"

\* The record has a copy at the provider, linked by provider_record_id.
LinkedAtProvider(r) ==
    /\ records[r].provider_record_id \in DOMAIN provider
    /\ RStrip(provider[records[r].provider_record_id].name) = RStrip(records[r].record_name)
    /\ provider[records[r].provider_record_id].type = records[r].record_type

OtherFailure ==
    /\ pc = "update"
    /\ todo' = Tail(todo)
    /\ Rec(Head(todo)).needs_update = "true"
    /\ NewCalls = <<>> \/ NewCalls[1].result = "fail"

(***************************************************************************)
(* C6, as stated: when a record's update fails for a reason other than     *)
(* record-not-found, the cycle appends one failed audit entry with the     *)
(* error text, leaves the record's cached address and its sync_status      *)
(* unchanged and counts the record as failed.                              *)
(***************************************************************************)
C6_AsStated ==
    [][OtherFailure =>
          LET r == Head(todo)
          IN /\ OneAuditEntry(r, "failed", FailureMessage(Rec(r)))
             /\ ip_addresses' = ip_addresses
             /\ records'[r].sync_status = records[r].sync_status
             /\ updates_failed' = updates_failed + 1]_vars

(***************************************************************************)
(* C6, amended: when a record's update fails for a reason other than       *)
(* record-not-found, the cycle appends one failed audit entry with a fixed *)
(* error text, leaves the record's cached address unchanged and counts the *)
(* record as failed; the record's row is unchanged, except that with       *)
(* daemon_sync_checks enabled a failed call is followed by a listing of    *)
(* the zone, and a listing that does not hold the record's                 *)
(* provider_record_id makes the record 'orphaned' with a null              *)
(* provider_record_id.                                                     *)
(***************************************************************************)
C6_OtherFailure ==
    [][OtherFailure =>
          LET r == Head(todo)
              listed_absent ==
                  /\ sync_checks
                  /\ Len(NewCalls) = 2
                  /\ NewCalls[2].op = "get_zone_records"
                  /\ NewCalls[2].result = "ok"
                  /\ Rec(r).provider_record_id \notin ZoneRecords(provider, Rec(r).zone_id)
          IN /\ OneAuditEntry(r, "failed", FailureMessage(Rec(r)))
             /\ ip_addresses' = ip_addresses
             /\ updates_failed' = updates_failed + 1
             /\ updates_succeeded' = updates_succeeded
             /\ provider' = provider
             /\ CycleGoesOn
             /\ (sync_checks /\ NewCalls # <<>>) => Len(NewCalls) = 2
             /\ IF listed_absent
                THEN /\ records'[r].sync_status = "orphaned"
                     /\ records'[r].provider_record_id = NoId
                ELSE records' = records]_vars

\* The last update call failed, was not followed by a listing that shows the
\* record absent, and the record is as it was loaded.
C6_Witness ==
    /\ pc \in {"update", "finalize"}
    /\ updates_failed >= 1
    /\ \E i \in 1..Len(api_calls) :
          /\ api_calls[i].op = "update_record"
          /\ api_calls[i].result = "fail"
          /\ LET r == api_calls[i].record
             IN /\ AuditedThisCycle(r, "failed")
                /\ records[r].provider_record_id = Rec(r).provider_record_id
                /\ records[r].provider_record_id \in DOMAIN provider
                /\ records[r].sync_status = Rec(r).sync_status
                /\ get_ip_address(r) = Rec(r).old_ip
                /\ get_ip_address(r) # Rec(r).new_ip

(***************************************************************************)
(* C7: a cycle is never all-or-nothing: when the loop over the records is  *)
(* done, every record that needed an update has been attempted and has its *)
(* own outcome (address and success entry, or failure entry), whatever     *)
(* happened to the records before it; failures do not fail the cycle.      *)
(***************************************************************************)
C7_NeverAllOrNothing ==
    /\ [](pc = "finalize" =>
            /\ todo = <<>>
            /\ \A r \in Loaded :
                  Rec(r).needs_update = "true" =>
                      \/ /\ AuditedThisCycle(r, "success")
                         /\ ip_addresses[r].ip_address = Rec(r).new_ip
                         /\ ip_addresses[r].last_changed_at = now
                      \/ AuditedThisCycle(r, "failed")
            /\ updates_succeeded + updates_failed =
                  Cardinality({r \in Loaded : Rec(r).needs_update = "true"}))
    /\ [][pc = "finalize" => result' = TRUE]_vars

\* The first record's update failed and the second record's update was
\* committed in the same cycle.
C7_Witness ==
    /\ pc = "finalize"
    /\ updates_failed >= 1
    /\ updates_succeeded >= 1
    /\ \E r1, r2 \in Loaded :
          /\ r1 < r2
          /\ AuditedThisCycle(r1, "failed")
          /\ AuditedThisCycle(r2, "success")
          /\ ip_addresses[r2].ip_address = Rec(r2).new_ip

\* What the cycle in progress has not done so far.
NoProviderWrite ==
    \A i \in 1..Len(api_calls) :
        api_calls[i].op \notin {"update_record", "create_records"}

NoChangeTimestampBumped ==
    \A r \in DOMAIN ip_addresses : ip_addresses[r].last_changed_at # now

NoAuditEntryAppended ==
    \A i \in 1..Len(dns_updates) : dns_updates[i].updated_at # now

(***************************************************************************)
(* C8, as stated: a cycle that directly follows a completed cycle, with no *)
(* change of the detected addresses and no provider-side or menu change in *)
(* between, issues no provider write, bumps no change timestamp and        *)
(* appends no audit entry.                                                 *)
(***************************************************************************)
C8_AsStated ==
    (pc # "idle" /\ steady) =>
        /\ NoProviderWrite
        /\ NoChangeTimestampBumped
        /\ NoAuditEntryAppended

\* No record failed in the cycle before the one in progress.
PreviousCycleClean ==
    \A i \in 1..Len(dns_updates) :
        dns_updates[i].updated_at = now - 1 => dns_updates[i].status # "failed"

(***************************************************************************)
(* C8, amended: a cycle that directly follows a completed cycle in which   *)
(* no record failed, with no change of the detected addresses and no       *)
(* provider-side or menu change in between, issues no provider call, bumps *)
(* no change timestamp and appends no audit entry; the records it finds    *)
(* unchanged get their 'last checked' timestamp refreshed.                 *)
(***************************************************************************)
C8_Idempotence ==
    (pc # "idle" /\ steady /\ PreviousCycleClean) =>
        /\ api_calls = <<>>
        /\ NoChangeTimestampBumped
        /\ NoAuditEntryAppended
        /\ \A r \in Loaded : Rec(r).needs_update # "true"
        /\ pc = "finalize" =>
              \A r \in Loaded :
                  Rec(r).needs_update = "false" =>
                      /\ ip_addresses[r].last_checked_at = now
                      /\ ip_addresses[r].last_changed_at < now
                      /\ ip_addresses[r].ip_address = Rec(r).current_ip

\* The second of two cycles in succession is done; the first one updated
\* record r, the second one only refreshed its 'last checked' timestamp.
C8_Witness ==
    /\ pc = "finalize"
    /\ steady
    /\ PreviousCycleClean
    /\ \E r \in Loaded :
          /\ Rec(r).needs_update = "false"
          /\ ip_addresses[r].last_checked_at = now
          /\ ip_addresses[r].last_changed_at = now - 1
          /\ \E i \in 1..Len(dns_updates) :
                /\ dns_updates[i].record_id = r
                /\ dns_updates[i].status = "success"
                /\ dns_updates[i].updated_at = now - 1

\* The zone-level sync of the cycle in progress created record r at the
\* provider and the listing after the creation was answered.
CreatedAndRefetched(r) ==
    \E i \in 1..Len(api_calls) :
        /\ api_calls[i].op = "create_records"
        /\ api_calls[i].record = r
        /\ api_calls[i].result = "ok"
        /\ \E j \in (i + 1)..Len(api_calls) :
              /\ api_calls[j].op = "get_zone_records"
              /\ api_calls[j].result = "ok"
              /\ \A k \in (i + 1)..(j - 1) : api_calls[k].op = "create_records"

SyncListed(z) ==
    /\ pc = "sync"
    /\ z \in zones_to_sync
    /\ z \notin zones_to_sync'
    /\ Len(NewCalls) >= 2
    /\ NewCalls[2].op = "get_zone_records"
    /\ NewCalls[2].result = "ok"

DetectedNow == IF pc = "force" THEN cli_network ELSE network

(***************************************************************************)
(* C11: a provider create or update call carries the placeholder address   *)
(* (0.0.0.0 for A, :: for AAAA) as its content only when no real address   *)
(* of the record's type was detected.                                      *)
(***************************************************************************)
C11_PlaceholderOnlyWithoutAddress ==
    [][\A i \in 1..Len(NewCalls) :
          (/\ NewCalls[i].op \in {"create_records", "update_record"}
           /\ IsPlaceholder(NewCalls[i].content))
              => ~Truthy(TargetIp(TypeOf(NewCalls[i].record), DetectedNow))]_vars

(***************************************************************************)
(* C12: a step that disables a record clears the record's                  *)
(* provider_record_id and sets its sync_status to 'local_only', and the    *)
(* record's remote copy is gone from the provider when it does so; no step *)
(* that disables a record removes a local row.                             *)
(***************************************************************************)
C12_DisableAfterRemoteDelete ==
    [][\A r \in DOMAIN records :
          (records[r].enabled /\ (r \in DOMAIN records' => ~records'[r].enabled))
              => /\ r \in DOMAIN records'
                 /\ DOMAIN records \subseteq DOMAIN records'
                 /\ records'[r].provider_record_id = NoId
                 /\ records'[r].sync_status = "local_only"
                 /\ records[r].provider_record_id \notin DOMAIN provider']_vars

(***************************************************************************)
(* Vocabulary of the convergence properties.                               *)
(***************************************************************************)
\* An address of the record's type is detected.
DetectedFor(r) == Truthy(TargetIp(records[r].record_type, network))

\* The record is in its converged state.
ConvergedRecord(r) ==
    /\ records[r].provider_record_id # NoId
    /\ Truthy(get_ip_address(r))
    /\ get_ip_address(r) = TargetIp(records[r].record_type, network)
    /\ records[r].sync_status = "synced"

EnabledRecords == {r \in DOMAIN records : records[r].enabled}

\* The model's provider has no id left for the records a zone-level sync
\* has to create: the cycle cannot go on.
OutOfIds ==
    /\ pc = "sync"
    /\ \E z \in zones_to_sync : next_pid + MissingCount(z) - 1 > MaxPid

\* The zone has an enabled record, and cycles have started.
ZoneInUse(z) ==
    /\ now >= 1
    /\ zones[z].enabled
    /\ get_records_by_zone(z, TRUE) # {}

TransportFailures ==
    {[status |-> 0, code |-> "Timeout"],
     [status |-> 0, code |-> "ConnectionError"]}

Responses ==
    {[status |-> 200, code |-> "none"],
     [status |-> 201, code |-> "none"],
     [status |-> 401, code |-> "none"],
     [status |-> 404, code |-> "RECORD_NOT_FOUND"],
     [status |-> 404, code |-> "UNKNOWN"],
     [status |-> 429, code |-> "none"],
     [status |-> 500, code |-> "none"]}

\* request_with_retry returns None after the last failed attempt.
NoResponse == [status |-> 0, code |-> "None"]

ClientOps ==
    {"get_zones", "get_zone_records", "update_record", "create_records",
     "delete_record"}

\* Faulty variant: every response object counts as true.
ResponseAlwaysTrue(response) == response # NoResponse

\* The truth value of `response` in `if response and ...`: None is false,
\* and requests.Response.__bool__ returns Response.ok, which is False for
\* a status of 400 and above.
ResponseBool(response) == response # NoResponse /\ response.status < 400

\* The if-chain of get_zones on what request_with_retry returned.
get_zones_result(response) ==
    IF ResponseBool(response) /\ response.status = 200 THEN "list"
    ELSE "None"

\* The if-chain of get_zone_records.
get_zone_records_result(response) ==
    IF ResponseBool(response) /\ response.status = 200 THEN "list"
    ELSE IF ResponseBool(response) /\ response.status = 404 THEN "ZoneNotFoundError"
    ELSE "None"

\* The if-chain in the loop of update_record; "continue" is the retry.
update_record_result(response, att) ==
    IF ResponseBool(response) /\ response.status = 200 THEN "True"
    ELSE IF ResponseBool(response) /\ response.status = 401
    THEN IF att < max_retries - 1 THEN "continue" ELSE "False"
    ELSE IF ResponseBool(response) /\ response.status = 429 THEN "False"
    ELSE IF ResponseBool(response) /\ response.status = 404
    THEN IF response.code = "RECORD_NOT_FOUND" THEN "RecordNotFoundError"
         ELSE "False"
    ELSE "False"

\* The if-chain of create_records.
create_records_result(response) ==
    IF ResponseBool(response) /\ response.status = 201 THEN "True" ELSE "False"

\* The if-chain of delete_record.
delete_record_result(response) ==
    IF ResponseBool(response) /\ response.status = 200 THEN "True" ELSE "False"

\* What the operation does with what request_with_retry returned.
ClientResult(op, response, att) ==
    CASE op = "get_zones" -> get_zones_result(response)
      [] op = "get_zone_records" -> get_zone_records_result(response)
      [] op = "update_record" -> update_record_result(response, att)
      [] op = "create_records" -> create_records_result(response)
      [] op = "delete_record" -> delete_record_result(response)

\* A caller invokes an operation of the client; the call before it, if
\* any, has returned.
ClientCall(op) ==
    /\ client_op = "none" \/ returned # "none"
    /\ client_op' = op
    /\ attempt' = 0
    /\ http_attempt' = 0
    /\ wire' = <<>>
    /\ returned' = "none"
    /\ UNCHANGED <<enginevars, menuvars, poolvars, othervars>>

\* One iteration of the loop of request_with_retry, together with what
\* follows it when the loop is left: the operation's if-chain.
HttpAttempt ==
    /\ client_op # "none"
    /\ returned = "none"
    /\ \E met \in TransportFailures \cup Responses :
          LET transport == met \in TransportFailures
              exhausted == transport /\ http_attempt + 1 = retries
              response == IF transport THEN NoResponse ELSE met
              res == ClientResult(client_op, response, attempt)
          IN /\ wire' = Append(wire, met)
             /\ IF transport /\ ~exhausted
                THEN /\ http_attempt' = http_attempt + 1
                     /\ UNCHANGED <<attempt, returned>>
                ELSE IF res = "continue"
                THEN /\ http_attempt' = 0
                     /\ attempt' = attempt + 1
                     /\ UNCHANGED returned
                ELSE /\ returned' = res
                     /\ UNCHANGED <<attempt, http_attempt>>
    /\ UNCHANGED client_op
    /\ UNCHANGED <<enginevars, menuvars, poolvars, othervars>>

ClientNext ==
    \/ \E op \in ClientOps : ClientCall(op)
    \/ HttpAttempt

\* The client alone: the engine and the store are at rest.
ClientSpecInit == Init /\ sync_checks = TRUE /\ has_cred = Zones /\ next_pid = 1

ClientSpec == ClientSpecInit /\ [][ClientNext]_vars

\* The last thing the call in progress met on the network.
LastMet == wire[Len(wire)]

\* The call in progress has received an HTTP response.
ResponseReceived == wire # <<>> /\ LastMet \in Responses

\* How many of the call's attempts met a 401.
RECURSIVE Count401(_)
Count401(w) ==
    IF w = <<>> THEN 0
    ELSE (IF Head(w).status = 401 THEN 1 ELSE 0) + Count401(Tail(w))

C16_RetryOnceAfter401 ==
    client_op = "update_record" =>
        /\ Count401(wire) <= max_retries
        /\ (ResponseReceived /\ LastMet.status = 401) =>
              IF Count401(wire) < max_retries THEN returned = "none"
              ELSE returned = "False"
        /\ (ResponseReceived /\ LastMet.status = 429) => returned = "False"

(***************************************************************************)
(* C17: a 404 response that carries the provider's record-not-found code   *)
(* makes update_record and delete_record raise RecordNotFoundError; any    *)
(* other 404 makes them report a plain failure.                            *)
(***************************************************************************)
C17_RecordNotFoundRaised ==
    (/\ client_op \in {"update_record", "delete_record"}
     /\ ResponseReceived
     /\ LastMet.status = 404) =>
        IF LastMet.code = "RECORD_NOT_FOUND" THEN returned = "RecordNotFoundError"
        ELSE returned = "False"

(***************************************************************************)
(* The connection pool (src/src/database.py): NumThreads threads use       *)
(* `with self.get_connection() as conn:` at the same time.  A thread is    *)
(* "out" of get_connection, in "get" (inside self._pool.get), at "probe"   *)
(* (it holds a connection and is about to run SELECT 1), in the "body" of  *)
(* the with statement, or "failing" (an exception is on its way through    *)
(* the except and finally clauses).  A connection is "open", "in_tx" (open *)
(* with an uncommitted transaction) or "dead" (closed, or failing every    *)
(* statement).                                                             *)
(***************************************************************************)
Idle == {pool_queue[i] : i \in 1..Len(pool_queue)}

CheckedOut == {t \in Threads : th_conn[t] # NoConn}

\* Faulty variant: the connection is read from the queue and left in it.
PeekConnection(q) == q

\* What self._pool.get leaves in the queue.
TakeConnection(q) == Tail(q)

\* Faulty variant: the except clause does not roll back.
KeepTransaction(cs, c) == cs

\* conn.rollback() in the except clause; on a closed connection it raises
\* sqlite3.Error, which is swallowed.
Rollback(cs, c) == IF cs[c] = "in_tx" THEN [cs EXCEPT ![c] = "open"] ELSE cs

\* A thread enters get_connection: conn = None, and it calls
\* self._pool.get(timeout=10.0).
Request(t) ==
    /\ th_pc[t] = "out"
    /\ th_pc' = [th_pc EXCEPT ![t] = "get"]
    /\ th_raised' = [th_raised EXCEPT ![t] = "none"]
    /\ th_blocked' = [th_blocked EXCEPT ![t] = (pool_queue = <<>>)]
    /\ UNCHANGED <<pool_queue, conn_state, th_conn, db_closed>>
    /\ UNCHANGED <<enginevars, menuvars, clientvars, othervars>>

\* self._pool.get returns the connection at the head of the queue.
Get(t) ==
    /\ th_pc[t] = "get"
    /\ pool_queue # <<>>
    /\ th_conn' = [th_conn EXCEPT ![t] = Head(pool_queue)]
    /\ pool_queue' = TakeConnection(pool_queue)
    /\ th_pc' = [th_pc EXCEPT ![t] = "probe"]
    /\ UNCHANGED <<conn_state, th_raised, th_blocked, db_closed>>
    /\ UNCHANGED <<enginevars, menuvars, clientvars, othervars>>

\* The wait of self._pool.get is over and the queue is empty: queue.Empty,
\* turned into DatabaseError; conn is None, so that the except and finally
\* clauses do nothing.
GetTimeout(t) ==
    /\ th_pc[t] = "get"
    /\ pool_queue = <<>>
    /\ th_raised' = [th_raised EXCEPT ![t] = "Connection pool exhausted"]
    /\ th_pc' = [th_pc EXCEPT ![t] = "out"]
    /\ UNCHANGED <<pool_queue, conn_state, th_conn, th_blocked, db_closed>>
    /\ UNCHANGED <<enginevars, menuvars, clientvars, othervars>>

\* conn.execute("SELECT 1"): on sqlite3.Error the connection is closed and
\* _create_connection is called, which returns a new connection or raises
\* DatabaseError; conn then still refers to the closed connection.
Probe(t) ==
    /\ th_pc[t] = "probe"
    /\ LET c == th_conn[t]
           fresh == Len(conn_state) + 1
       IN IF conn_state[c] # "dead"
          THEN /\ th_pc' = [th_pc EXCEPT ![t] = "body"]
               /\ UNCHANGED <<conn_state, th_conn, th_raised>>
          ELSE \E create_ok \in Answers(fresh <= MaxConns, BOOLEAN, FALSE) :
                  IF create_ok
                  THEN /\ conn_state' = Append(conn_state, "open")
                       /\ th_conn' = [th_conn EXCEPT ![t] = fresh]
                       /\ th_pc' = [th_pc EXCEPT ![t] = "body"]
                       /\ UNCHANGED th_raised
                  ELSE /\ th_raised' = [th_raised EXCEPT
                                           ![t] = "Failed to create database connection"]
                       /\ th_pc' = [th_pc EXCEPT ![t] = "failing"]
                       /\ UNCHANGED <<conn_state, th_conn>>
    /\ UNCHANGED <<pool_queue, th_blocked, db_closed>>
    /\ UNCHANGED <<enginevars, menuvars, clientvars, othervars>>

\* The body of the with statement writes: the connection has an open
\* transaction.
BodyWrite(t) ==
    /\ th_pc[t] = "body"
    /\ conn_state[th_conn[t]] = "open"
    /\ conn_state' = [conn_state EXCEPT ![th_conn[t]] = "in_tx"]
    /\ UNCHANGED <<pool_queue, th_pc, th_conn, th_raised, th_blocked, db_closed>>
    /\ UNCHANGED <<enginevars, menuvars, clientvars, othervars>>

\* The body raises (a statement fails, a constraint is violated, the
\* connection is closed under it).
BodyRaises(t) ==
    /\ th_pc[t] = "body"
    /\ th_raised' = [th_raised EXCEPT ![t] = "body"]
    /\ th_pc' = [th_pc EXCEPT ![t] = "failing"]
    /\ UNCHANGED <<pool_queue, conn_state, th_conn, th_blocked, db_closed>>
    /\ UNCHANGED <<enginevars, menuvars, clientvars, othervars>>

\* The body ends (conn.commit() was its last statement, if it wrote); the
\* finally clause puts the connection back.
ExitNormally(t) ==
    /\ th_pc[t] = "body"
    /\ conn_state' = IF conn_state[th_conn[t]] = "in_tx"
                     THEN [conn_state EXCEPT ![th_conn[t]] = "open"]
                     ELSE conn_state
    /\ pool_queue' = Append(pool_queue, th_conn[t])
    /\ th_conn' = [th_conn EXCEPT ![t] = NoConn]
    /\ th_pc' = [th_pc EXCEPT ![t] = "out"]
    /\ UNCHANGED <<th_raised, th_blocked, db_closed>>
    /\ UNCHANGED <<enginevars, menuvars, clientvars, othervars>>

\* The except clause rolls back and re-raises; the finally clause puts
\* the connection back.
ExitFailing(t) ==
    /\ th_pc[t] = "failing"
    /\ conn_state' = Rollback(conn_state, th_conn[t])
    /\ pool_queue' = Append(pool_queue, th_conn[t])
    /\ th_conn' = [th_conn EXCEPT ![t] = NoConn]
    /\ th_pc' = [th_pc EXCEPT ![t] = "out"]
    /\ UNCHANGED <<th_raised, th_blocked, db_closed>>
    /\ UNCHANGED <<enginevars, menuvars, clientvars, othervars>>

\* A connection stops working (its statements raise sqlite3.Error from now
\* on); the bound on the connections ever created bounds this too.
ConnectionDies(c) ==
    /\ c \in DOMAIN conn_state
    /\ conn_state[c] # "dead"
    /\ Len(conn_state) < MaxConns
    /\ conn_state' = [conn_state EXCEPT ![c] = "dead"]
    /\ UNCHANGED <<pool_queue, th_pc, th_conn, th_raised, th_blocked, db_closed>>
    /\ UNCHANGED <<enginevars, menuvars, clientvars, othervars>>

\* Database.close(): the idle connections are taken from the queue and
\* closed.
Close ==
    /\ ~db_closed
    /\ db_closed' = TRUE
    /\ pool_queue' = <<>>
    /\ conn_state' = [c \in DOMAIN conn_state |->
                         IF c \in Idle THEN "dead" ELSE conn_state[c]]
    /\ UNCHANGED <<th_pc, th_conn, th_raised, th_blocked>>
    /\ UNCHANGED <<enginevars, menuvars, clientvars, othervars>>

PoolNext ==
    \/ \E t \in Threads : Request(t)
    \/ \E t \in Threads : Get(t)
    \/ \E t \in Threads : GetTimeout(t)
    \/ \E t \in Threads : Probe(t)
    \/ \E t \in Threads : BodyWrite(t)
    \/ \E t \in Threads : BodyRaises(t)
    \/ \E t \in Threads : ExitNormally(t)
    \/ \E t \in Threads : ExitFailing(t)
    \/ \E c \in 1..MaxConns : ConnectionDies(c)
    \/ Close

\* The pool alone: the engine and the client are at rest.
PoolSpecInit == Init /\ sync_checks = TRUE /\ has_cred = Zones /\ next_pid = 1

\* self._pool.get(timeout=10.0) returns or raises after at most ten
\* seconds: a thread does not stay in it for ever.
PoolSpec ==
    /\ PoolSpecInit
    /\ [][PoolNext]_vars
    /\ \A t \in Threads : WF_vars(Get(t) \/ GetTimeout(t))

(***************************************************************************)
(* C18: when more threads ask for a connection than the pool holds, the    *)
(* extra callers wait until a connection is released and then get it, or   *)
(* fail with the pool-exhaustion error when the bounded wait is over: none *)
(* waits for ever; and no connection is ever held by two owners, nor held  *)
(* by one and idle in the pool.                                            *)
(***************************************************************************)
C18_PoolUnderContention ==
    /\ [](\A t, u \in CheckedOut : th_conn[t] = th_conn[u] => t = u)
    /\ [](\A t \in CheckedOut : th_conn[t] \notin Idle)
    /\ [](\A i, j \in 1..Len(pool_queue) : pool_queue[i] = pool_queue[j] => i = j)
    /\ [](\A t \in Threads :
             th_raised[t] = "Connection pool exhausted" => th_conn[t] = NoConn)
    /\ \A t \in Threads : (th_pc[t] = "get") ~> (th_pc[t] # "get")

\* Every connection of the pool is held by a thread, one more thread found
\* the pool empty when it asked, waited, and now holds a connection that
\* was released to it.
C18_Witness ==
    /\ ~db_closed
    /\ Cardinality(CheckedOut) = max_connections
    /\ pool_queue = <<>>
    /\ \E t \in CheckedOut : th_blocked[t] /\ th_pc[t] = "body"
    /\ \E u \in Threads : th_pc[u] = "get"

(***************************************************************************)
(* C19: every acquisition through get_connection puts a connection back   *)
(* into the pool when it is left, normally or with an exception (after the *)
(* rollback), also when the connection it had taken was dead and replaced; *)
(* until close() is called, the idle connections and the connections held  *)
(* by threads are as many as the pool's size.                              *)
(***************************************************************************)
C19_ConnectionAlwaysReturned ==
    /\ [](~db_closed =>
             Len(pool_queue) + Cardinality(CheckedOut) = max_connections)
    /\ [](\A c \in Idle : conn_state[c] # "in_tx")
    /\ [][\A t \in Threads :
             (th_conn[t] # NoConn /\ th_pc'[t] = "out") =>
                 /\ pool_queue' = Append(pool_queue, th_conn[t])
                 /\ th_conn'[t] = NoConn]_vars
    /\ [][\A t \in Threads :
             (th_conn[t] # NoConn /\ th_conn'[t] # th_conn[t] /\ th_pc'[t] # "out") =>
                 /\ conn_state[th_conn[t]] = "dead"
                 /\ th_conn'[t] \notin DOMAIN conn_state
                 /\ conn_state'[th_conn'[t]] = "open"]_vars

\* A thread took a dead connection from the pool; the replacement could
\* not be created, and the thread left get_connection with DatabaseError
\* after putting the connection back.
C19_Witness ==
    /\ ~db_closed
    /\ \E t \in Threads :
          /\ th_raised[t] = "Failed to create database connection"
          /\ th_pc[t] = "out"
          /\ th_conn[t] = NoConn
    /\ \E c \in Idle : conn_state[c] = "dead"
    /\ Len(pool_queue) = max_connections

(***************************************************************************)
(* The engine while credentials change under it.  The daemon and the menu  *)
(* are separate processes on one store: between two cycles a zone's stored *)
(* secret can be replaced by one that the daemon cannot decrypt.           *)
(* get_dyndns_config_by_zone then returns None for the zone.               *)
(***************************************************************************)
\* The zones whose cached client holds a secret that the store no longer
\* holds, after a change of zone z's credential: the client of
\* _provider_clients[z], if there is one, keeps the api_key it was built
\* with (ProviderDNSClient.__init__).
OldSecretAfterChange(z) ==
    IF z \in provider_clients THEN old_secret \cup {z} ELSE old_secret

CredentialUnreadable(z) ==
    /\ pc = "idle"
    /\ z \in has_cred
    /\ has_cred' = has_cred \ {z}
    /\ old_secret' = OldSecretAfterChange(z)
    /\ steady' = FALSE
    /\ UNCHANGED <<sync_checks, dbvars, provvars, network, cyclevars,
                   provider_clients, pc, result, now, api_calls>>
    /\ UNCHANGED sidevars

\* The menu's credential update (another process): the zone's row holds a
\* new secret, which can be read.
CredentialReplaced(z) ==
    /\ pc = "idle"
    /\ now < MaxCycles
    /\ has_cred' = has_cred \cup {z}
    /\ old_secret' = OldSecretAfterChange(z)
    /\ steady' = FALSE
    /\ UNCHANGED <<sync_checks, dbvars, provvars, network, cyclevars,
                   provider_clients, pc, result, now, api_calls>>
    /\ UNCHANGED sidevars

CredNext ==
    \/ Next
    \/ \E z \in Zones : CredentialUnreadable(z)
    \/ \E z \in Zones : CredentialReplaced(z)

CredSpec == Init /\ [][CredNext]_vars

C21_NoCallWithOldSecret ==
    [][pc # "idle" =>
          \A i \in 1..Len(NewCalls) : NewCalls[i].zone \notin old_secret]_vars

(***************************************************************************)
(* The generic update helpers of the store (src/src/database.py):          *)
(* Database.update_record(record_id, **kwargs) and                         *)
(* Database.update_zone(zone_id, **kwargs), applied to one row each.       *)
(***************************************************************************)
\* The most keywords of one call.
MaxKwargs == 2

\* The columns that hold a flag, and the values a keyword can carry: for a
\* flag, 2 is a second true value.
FlagColumns == {"enabled", "managed"}

KwValues(k) == IF k \in FlagColumns THEN {0, 1, 2} ELSE {0, 1}

\* The keywords tried: the columns of the table and one that is none.
RecordKeywords ==
    {"id", "zone_id", "record_name", "record_type", "provider_record_id",
     "ttl", "enabled", "managed", "sync_status", "last_synced_at",
     "updated_at", "content"}

ZoneKeywords ==
    {"id", "zone_name", "provider_zone_id", "enabled", "updated_at", "content"}

\* allowed_fields of update_record and of update_zone.
allowed_fields_record ==
    {"record_name", "record_type", "provider_record_id", "ttl", "enabled",
     "managed", "sync_status", "last_synced_at"}

allowed_fields_zone == {"zone_name", "provider_zone_id", "enabled"}

\* Another row of the table: UNIQUE (zone_id, record_name, record_type) and
\* UNIQUE zone_name make an update that collides with it fail.
OtherRecord == [zone_id |-> 0, record_name |-> 1, record_type |-> 1]
OtherZone == [zone_name |-> 1]

\* updates = {k: v for k, v in kwargs.items() if k in allowed_fields}, with
\* the flags turned into 1 or 0.
Updates(kwargs, allowed) ==
    [k \in DOMAIN kwargs \cap allowed |->
        IF k \in FlagColumns THEN (IF kwargs[k] # 0 THEN 1 ELSE 0) ELSE kwargs[k]]

\* UPDATE ... SET <updates>, updated_at = CURRENT_TIMESTAMP WHERE id = ?
UpdatedRow(row, updates) ==
    [f \in DOMAIN row |->
        IF f \in DOMAIN updates THEN updates[f]
        ELSE IF f = "updated_at" THEN 1
        ELSE row[f]]

\* The outcome of update_record(id, **kwargs) on the row: no allowed
\* keyword returns 0 before any statement; a row that collides with
\* another one raises sqlite3.IntegrityError.
update_record(row, kwargs) ==
    LET updates == Updates(kwargs, allowed_fields_record)
        new == UpdatedRow(row, updates)
    IN IF DOMAIN updates = {} THEN [row |-> row, ret |-> "0"]
       ELSE IF /\ new.zone_id = OtherRecord.zone_id
               /\ new.record_name = OtherRecord.record_name
               /\ new.record_type = OtherRecord.record_type
       THEN [row |-> row, ret |-> "IntegrityError"]
       ELSE [row |-> new, ret |-> "1"]

\* The outcome of update_zone(id, **kwargs) on the row.
update_zone(row, kwargs) ==
    LET updates == Updates(kwargs, allowed_fields_zone)
        new == UpdatedRow(row, updates)
    IN IF DOMAIN updates = {} THEN [row |-> row, ret |-> "0"]
       ELSE IF new.zone_name = OtherZone.zone_name
       THEN [row |-> row, ret |-> "IntegrityError"]
       ELSE [row |-> new, ret |-> "1"]

\* The keyword arguments of a call: any values for at most MaxKwargs of
\* the keywords.
KwargsOver(keywords) ==
    UNION {{f \in [K -> {0, 1, 2}] : \A k \in K : f[k] \in KwValues(k)} :
           K \in {S \in SUBSET keywords : Cardinality(S) <= MaxKwargs}}

\* Database.update_record(record_id, **kwargs) on the row of table records.
UpdateRecordCall ==
    /\ st_table = "records"
    /\ \E kwargs \in KwargsOver(RecordKeywords) :
          \E out \in {update_record(st_row, kwargs)} :
             /\ st_row' = out.row
             /\ st_call' = [op |-> "update_record", keywords |-> DOMAIN kwargs,
                            ret |-> out.ret]
    /\ UNCHANGED st_table
    /\ UNCHANGED <<enginevars, menuvars, clientvars, poolvars, encvars, daemonvars,
                   credvars>>

\* Database.update_zone(zone_id, **kwargs) on the row of table zones.
UpdateZoneCall ==
    /\ st_table = "zones"
    /\ \E kwargs \in KwargsOver(ZoneKeywords) :
          \E out \in {update_zone(st_row, kwargs)} :
             /\ st_row' = out.row
             /\ st_call' = [op |-> "update_zone", keywords |-> DOMAIN kwargs,
                            ret |-> out.ret]
    /\ UNCHANGED st_table
    /\ UNCHANGED <<enginevars, menuvars, clientvars, poolvars, encvars, daemonvars,
                   credvars>>

StoreNext == UpdateRecordCall \/ UpdateZoneCall

\* The helpers alone, on a row of either table.
StoreSpecInit ==
    /\ MenuInit
    /\ ClientInit
    /\ PoolInit
    /\ EncInit
    /\ ConfigInit
    /\ DaemonInit
    /\ EngineInit
    /\ sync_checks = TRUE
    /\ has_cred = Zones
    /\ next_pid = 1
    /\ st_table \in {"records", "zones"}
    /\ st_row = (IF st_table = "records" THEN RecordRow ELSE ZoneRow)
    /\ st_call = NoCall

StoreSpec == StoreSpecInit /\ [][StoreNext]_vars

\* The whitelist of the helper of a table.
AllowedFields(table) ==
    IF table = "records" THEN allowed_fields_record ELSE allowed_fields_zone

\* The call left the row as it was, changing no column and no timestamp.
RowKept == st_row' = st_row

(***************************************************************************)
(* C22: update_record and update_zone change whitelisted, mutable columns  *)
(* only: no call, whatever its keywords, changes an identity column of the *)
(* row (a record's type, name or zone id, a zone's id), and a call without *)
(* a whitelisted keyword leaves the row as it is.                          *)
(***************************************************************************)
C22_IdentityColumnsKept ==
    [][/\ st_row'.id = st_row.id
       /\ st_table = "records" =>
             /\ st_row'.zone_id = st_row.zone_id
             /\ st_row'.record_name = st_row.record_name
             /\ st_row'.record_type = st_row.record_type
       /\ st_call'.keywords \cap AllowedFields(st_table) = {} => RowKept]_vars

\* What holds of the helpers: id and zone_id never change, and a call
\* without a whitelisted keyword leaves the row as it is.
C22_KeysKept ==
    [][/\ st_row'.id = st_row.id
       /\ st_table = "records" => st_row'.zone_id = st_row.zone_id
       /\ st_call'.keywords \cap AllowedFields(st_table) = {} => RowKept]_vars

(***************************************************************************)
(* The encryption manager (encryption.py).  A text is a sequence of        *)
(* characters.  Fernet.encrypt builds a token from the key, a fresh        *)
(* initialisation vector and the text; Fernet.decrypt gives the text back  *)
(* for a token built with the same key and raises InvalidToken for         *)
(* anything else.  _setup_encryption either sets the cipher or raises, so  *)
(* a constructed manager always has one.                                   *)
(***************************************************************************)
MaxText == 3

Chars == {"a", "b"}

Texts == {Plain(t) : t \in UNION {[1..n -> Chars] : n \in 0..MaxText}}

Keys == {1, 2}

\* The key the manager loaded from its key file.
encryption_key == 1

Ivs == {0, 1, 2}

Tokens == {Token(k, iv, d.text) : k \in Keys, iv \in Ivs, d \in Texts \ {EmptyString}}

\* What a call either returns or raises.
Returned(x) == [raised |-> "none", output |-> x]
Raised(e) == [raised |-> e, output |-> NoOutput]

\* The check of the argument that encrypt and decrypt make before the try.
EmptyCheck(data) == data = EmptyString

\* EncryptionManager.encrypt(data), with the vector Fernet draws.
encrypt(data, iv) ==
    IF EmptyCheck(data) THEN Raised("ValueError")
    ELSE Returned(Token(encryption_key, iv, data.text))

\* EncryptionManager.decrypt(encrypted_data): every exception of the try
\* block, InvalidToken included, is raised again as EncryptionError.
decrypt(encrypted_data) ==
    IF EmptyCheck(encrypted_data) THEN Raised("ValueError")
    ELSE IF encrypted_data.kind = "token" /\ encrypted_data.key = encryption_key
    THEN Returned(Plain(encrypted_data.text))
    ELSE Raised("EncryptionError")

EncryptCall ==
    /\ \E data \in Texts, iv \in Ivs :
          \E out \in {encrypt(data, iv)} :
             enc_call' = [op |-> "encrypt", data |-> data,
                          raised |-> out.raised, output |-> out.output]
    /\ UNCHANGED <<enginevars, menuvars, clientvars, poolvars, storevars, daemonvars,
                   credvars>>

\* decrypt is given a stored string: a token of this or of another key, or
\* any other text.
DecryptCall ==
    /\ \E data \in Texts \cup Tokens :
          \E out \in {decrypt(data)} :
             enc_call' = [op |-> "decrypt", data |-> data,
                          raised |-> out.raised, output |-> out.output]
    /\ UNCHANGED <<enginevars, menuvars, clientvars, poolvars, storevars, daemonvars,
                   credvars>>

EncNext == EncryptCall \/ DecryptCall

EncSpecInit == Init /\ sync_checks = TRUE /\ has_cred = Zones /\ next_pid = 1

EncSpec == EncSpecInit /\ [][EncNext]_vars

\* The last call was given the empty string.
EmptyInput == enc_call.op # "none" /\ enc_call.data = EmptyString

(***************************************************************************)
(* C23: encrypt and decrypt, given empty input, fail with EncryptionError  *)
(* and with no other error, and produce no output.                         *)
(***************************************************************************)
C23_EmptyInputEncryptionError ==
    EmptyInput => enc_call.raised = "EncryptionError" /\ enc_call.output = NoOutput

\* What holds: empty input makes both fail, with ValueError, without output.
C23_EmptyInputFails ==
    EmptyInput => enc_call.raised = "ValueError" /\ enc_call.output = NoOutput

(***************************************************************************)
(* The forced update of the menu against the diff of the scheduled cycle.  *)
(***************************************************************************)
\* The record the forced update's loop is at.
ForcedRecord == Head(cli_records).id

\* The scheduled cycle, loading the record from the store as it is and
\* detecting the same addresses, would flag it.
CycleWouldUpdate(r) ==
    Processed(LoadedRecord(r), cli_network).needs_update = "true"

\* The step sends an update_record call for the record.
UpdateSentFor(r) ==
    \E i \in 1..Len(NewCalls) :
        NewCalls[i].op = "update_record" /\ NewCalls[i].record = r

(***************************************************************************)
(* C24: the forced update runs the diff and converge logic of the          *)
(* scheduled cycle: it sends a provider update for a record only if the    *)
(* cycle, from the same store and the same detected addresses, would flag  *)
(* the record, and for a record the cycle would not flag it leaves the     *)
(* record rows and the audit log as they are.                              *)
(***************************************************************************)
C24_ForcedUpdateSameAsCycle ==
    [][(pc = "force" /\ cli_records # <<>> /\ ~CycleWouldUpdate(ForcedRecord))
          => /\ ~UpdateSentFor(ForcedRecord)
             /\ records' = records
             /\ dns_updates' = dns_updates]_vars

(***************************************************************************)
(* The daemon (daemon.py): start() and stop(), called one after the other  *)
(* by the thread that manages the daemon, and _daemon_loop, run by each    *)
(* worker thread start() creates.  A worker is at the loop's test          *)
(* ("check"), inside application.run_cycle ("cycle"), in the wait between  *)
(* two cycles ("sleep"), in the wait after an exception ("errwait"), in a  *)
(* wait that the event has ended ("woken"), or past the loop ("done").     *)
(* Time passes in units; a cycle takes any time.                           *)
(***************************************************************************)
Workers == 1..MaxWorkers

Waiting == {"sleep", "errwait"}

\* The thread runs: Thread.is_alive().
is_alive(t) == w_pc[t] \notin {"unborn", "done"}

Spawned == {t \in Workers : w_pc[t] # "unborn"}

\* How a cycle can end: run_cycle returns True or False, or an exception
\* reaches the loop's handler.
CycleOutcomes == {"ok", "failed", "raised"}

\* Event.set() ends the wait of every thread that waits for the event.
\* Faulty variant: no thread is woken.
NotifyNobody(wp) == wp

Notify(wp) == [t \in DOMAIN wp |-> IF wp[t] \in Waiting THEN "woken" ELSE wp[t]]

\* Where the loop goes when a cycle has ended: into a wait of sleep_time,
\* or of error_wait after an exception, that returns at once when the
\* event is set, or straight to the loop's test when sleep_time is 0.
\* Faulty variant: an exception ends the loop.
AfterCycleDies(outcome, sleep_time, event_set) ==
    IF outcome = "raised" THEN "done"
    ELSE IF sleep_time = 0 THEN "check"
    ELSE IF event_set THEN "woken" ELSE "sleep"

AfterCycle(outcome, sleep_time, event_set) ==
    IF outcome = "raised" THEN (IF event_set THEN "woken" ELSE "errwait")
    ELSE IF sleep_time = 0 THEN "check"
    ELSE IF event_set THEN "woken" ELSE "sleep"

UNCHANGED_besides_daemon ==
    UNCHANGED <<enginevars, menuvars, clientvars, poolvars, storevars, encvars,
                credvars>>

\* DaemonManager.start()
StartCall ==
    /\ ctl_pc = "idle"
    /\ IF running
       THEN /\ d_ret' = [op |-> "start", result |-> FALSE]
            /\ UNCHANGED <<running, stop_event, daemon_thread, w_pc, w_timer, w_last>>
       ELSE /\ Spawned # Workers
            /\ LET t == Cardinality(Spawned) + 1
               IN /\ running' = TRUE
                  /\ stop_event' = FALSE
                  /\ daemon_thread' = t
                  /\ w_pc' = [w_pc EXCEPT ![t] = "check"]
                  /\ d_ret' = [op |-> "start", result |-> TRUE]
            /\ UNCHANGED <<w_timer, w_last>>
    /\ UNCHANGED <<ctl_pc, grace_left, cleaned, main_loop>>
    /\ UNCHANGED_besides_daemon

\* DaemonManager.stop() up to its join, or to its end when it has no
\* thread to wait for.
StopCall ==
    /\ ctl_pc = "idle"
    /\ IF ~running
       THEN /\ d_ret' = [op |-> "stop", result |-> FALSE]
            /\ UNCHANGED <<running, stop_event, w_pc, ctl_pc, grace_left, cleaned>>
       ELSE /\ stop_event' = TRUE
            /\ running' = FALSE
            /\ w_pc' = Notify(w_pc)
            /\ IF daemon_thread # NoThread /\ is_alive(daemon_thread)
               THEN /\ ctl_pc' = "joining"
                    /\ grace_left' = join_timeout
                    /\ UNCHANGED <<d_ret, cleaned>>
               ELSE /\ cleaned' = TRUE
                    /\ d_ret' = [op |-> "stop", result |-> TRUE]
                    /\ UNCHANGED <<ctl_pc, grace_left>>
    /\ UNCHANGED <<daemon_thread, w_timer, w_last, main_loop>>
    /\ UNCHANGED_besides_daemon

\* join returns because the thread has ended: cleanup, and stop() returns
\* True.
JoinReturns ==
    /\ ctl_pc = "joining"
    /\ ~is_alive(daemon_thread)
    /\ ctl_pc' = "idle"
    /\ cleaned' = TRUE
    /\ d_ret' = [op |-> "stop", result |-> TRUE]
    /\ UNCHANGED <<running, stop_event, daemon_thread, w_pc, w_timer, w_last, grace_left,
                   main_loop>>
    /\ UNCHANGED_besides_daemon

\* join returns because its timeout has passed: the thread is alive, and
\* stop() returns False.
JoinTimeout ==
    /\ ctl_pc = "joining"
    /\ grace_left = 0
    /\ is_alive(daemon_thread)
    /\ ctl_pc' = "idle"
    /\ d_ret' = [op |-> "stop", result |-> FALSE]
    /\ UNCHANGED <<running, stop_event, daemon_thread, w_pc, w_timer, w_last, grace_left,
                   cleaned, main_loop>>
    /\ UNCHANGED_besides_daemon

\* while self.running and not self._stop_event.is_set(): into the next
\* cycle, or out of the loop.
LoopCheck(t) ==
    /\ w_pc[t] = "check"
    /\ w_pc' = [w_pc EXCEPT ![t] = IF running /\ ~stop_event THEN "cycle" ELSE "done"]
    /\ UNCHANGED <<running, stop_event, daemon_thread, w_timer, w_last, ctl_pc, grace_left,
                   d_ret, cleaned, main_loop>>
    /\ UNCHANGED_besides_daemon

\* application.run_cycle() ends, and the loop enters its wait.
CycleEnd(t) ==
    /\ w_pc[t] = "cycle"
    /\ \E outcome \in CycleOutcomes, sleep_time \in 0..cycle_interval :
          /\ w_last' = [w_last EXCEPT ![t] = outcome]
          /\ w_pc' = [w_pc EXCEPT ![t] = AfterCycle(outcome, sleep_time, stop_event)]
          /\ w_timer' = [w_timer EXCEPT ![t] = IF outcome = "raised" THEN error_wait
                                               ELSE sleep_time]
    /\ UNCHANGED <<running, stop_event, daemon_thread, ctl_pc, grace_left, d_ret, cleaned,
                   main_loop>>
    /\ UNCHANGED_besides_daemon

\* The wait's timeout has passed with the event clear: wait returns False.
WaitTimeout(t) ==
    /\ w_pc[t] \in Waiting
    /\ w_timer[t] = 0
    /\ w_pc' = [w_pc EXCEPT ![t] = "check"]
    /\ UNCHANGED <<running, stop_event, daemon_thread, w_timer, w_last, ctl_pc, grace_left,
                   d_ret, cleaned, main_loop>>
    /\ UNCHANGED_besides_daemon

\* The wait returns True: break.
WaitEnded(t) ==
    /\ w_pc[t] = "woken"
    /\ w_pc' = [w_pc EXCEPT ![t] = "done"]
    /\ UNCHANGED <<running, stop_event, daemon_thread, w_timer, w_last, ctl_pc, grace_left,
                   d_ret, cleaned, main_loop>>
    /\ UNCHANGED_besides_daemon

\* The timeouts that run, and a unit of time passing: no timeout that has
\* run out is passed over.
TimersOfWaiting == {t \in Workers : w_pc[t] \in Waiting}

Tick ==
    /\ TimersOfWaiting # {} \/ ctl_pc = "joining"
    /\ \A t \in TimersOfWaiting : w_timer[t] > 0
    /\ ctl_pc = "joining" => grace_left > 0
    /\ w_timer' = [t \in Workers |-> IF t \in TimersOfWaiting THEN w_timer[t] - 1
                                     ELSE w_timer[t]]
    /\ grace_left' = IF ctl_pc = "joining" THEN grace_left - 1 ELSE grace_left
    /\ UNCHANGED <<running, stop_event, daemon_thread, w_pc, w_last, ctl_pc, d_ret, cleaned,
                   main_loop>>
    /\ UNCHANGED_besides_daemon

\* DaemonManager.run_forever(): the calling thread sets running, clears the
\* event and enters _daemon_loop itself; _daemon_thread stays as it is.
\* It is called while no thread of an earlier start() is alive.
RunForeverCall ==
    /\ ctl_pc = "idle"
    /\ IF daemon_thread = NoThread THEN TRUE ELSE ~is_alive(daemon_thread)
    /\ Spawned # Workers
    /\ LET t == Cardinality(Spawned) + 1
       IN /\ running' = TRUE
          /\ stop_event' = FALSE
          /\ w_pc' = [w_pc EXCEPT ![t] = "check"]
          /\ main_loop' = t
    /\ ctl_pc' = "foreground"
    /\ UNCHANGED <<daemon_thread, w_timer, w_last, grace_left, d_ret, cleaned>>
    /\ UNCHANGED_besides_daemon

\* SIGTERM or SIGINT in foreground mode: the handler runs in the main
\* thread, on top of the loop, wherever the loop is, and calls stop().
\* stop() has no live thread to join and goes on to application.cleanup().
SignalStop ==
    /\ ctl_pc = "foreground"
    /\ IF ~running
       THEN /\ d_ret' = [op |-> "stop", result |-> FALSE]
            /\ UNCHANGED <<running, stop_event, w_pc, cleaned>>
       ELSE /\ stop_event' = TRUE
            /\ running' = FALSE
            /\ w_pc' = Notify(w_pc)
            /\ cleaned' = TRUE
            /\ d_ret' = [op |-> "stop", result |-> TRUE]
    /\ UNCHANGED <<daemon_thread, w_timer, w_last, ctl_pc, grace_left, main_loop>>
    /\ UNCHANGED_besides_daemon

\* The loop of run_forever has ended: the finally clause, and the return.
RunForeverReturns ==
    /\ ctl_pc = "foreground"
    /\ w_pc[main_loop] = "done"
    /\ running' = FALSE
    /\ ctl_pc' = "idle"
    /\ main_loop' = NoThread
    /\ UNCHANGED <<stop_event, daemon_thread, w_pc, w_timer, w_last, grace_left, d_ret,
                   cleaned>>
    /\ UNCHANGED_besides_daemon

WorkerStep(t) == LoopCheck(t) \/ WaitTimeout(t) \/ WaitEnded(t)

DaemonNext ==
    \/ StartCall
    \/ StopCall
    \/ JoinReturns
    \/ JoinTimeout
    \/ \E t \in Workers : LoopCheck(t)
    \/ \E t \in Workers : CycleEnd(t)
    \/ \E t \in Workers : WaitTimeout(t)
    \/ \E t \in Workers : WaitEnded(t)
    \/ Tick
    \/ RunForeverCall
    \/ SignalStop
    \/ RunForeverReturns

DaemonSpecInit == Init /\ sync_checks = TRUE /\ has_cred = Zones /\ next_pid = 1

\* The threads are scheduled, join returns and time passes; nothing makes a
\* cycle end, and nobody has to call start() or stop().
DaemonSpec ==
    /\ DaemonSpecInit
    /\ [][DaemonNext]_vars
    /\ \A t \in Workers : WF_vars(WorkerStep(t))
    /\ WF_vars(JoinReturns \/ JoinTimeout)
    /\ WF_vars(RunForeverReturns)
    /\ WF_vars(Tick)

\* The step is one of start() or stop(): it changes what they set or
\* where their caller is.
ControlStep ==
    <<running, stop_event, daemon_thread, ctl_pc, d_ret, cleaned, main_loop>>'
        # <<running, stop_event, daemon_thread, ctl_pc, d_ret, cleaned, main_loop>>

\* The step requests a stop: it sets the event.
StopRequested == ~stop_event /\ stop_event'

\* The worker enters a cycle in the step.
CycleStarts(t) == w_pc[t] # "cycle" /\ w_pc'[t] = "cycle"

(***************************************************************************)
(* C25: cancellation.  A step that requests a stop ends the wait of every  *)
(* worker that sleeps between two cycles, whatever is left of the          *)
(* interval, and such a worker leaves the loop; no worker enters a cycle   *)
(* while the stop is requested; no step of start() or stop() takes a       *)
(* worker out of a cycle in flight; stop() returns from its join, with     *)
(* False only when the whole timeout has passed and the thread is still    *)
(* alive, with True when the thread has ended.                             *)
(***************************************************************************)
C25_Cancellation ==
    /\ [][StopRequested =>
             \A t \in Workers : w_pc[t] \in Waiting => w_pc'[t] = "woken"]_vars
    /\ [][\A t \in Workers : w_pc[t] = "woken" => w_pc'[t] \in {"woken", "done"}]_vars
    /\ [][\A t \in Workers : CycleStarts(t) => ~stop_event /\ ~stop_event']_vars
    /\ [][ControlStep =>
             \A t \in Workers : w_pc[t] = "cycle" => w_pc'[t] = "cycle"]_vars
    /\ [][(ctl_pc = "joining" /\ ctl_pc' = "idle") =>
             IF is_alive(daemon_thread)
             THEN grace_left = 0 /\ d_ret' = [op |-> "stop", result |-> FALSE]
             ELSE d_ret' = [op |-> "stop", result |-> TRUE]]_vars
    /\ \A t \in Workers : (w_pc[t] = "woken") ~> (w_pc[t] = "done")
    /\ (ctl_pc = "joining") ~> (ctl_pc = "idle")

\* A worker's sleep has been ended by a stop with time left of the
\* interval, and stop() waits for the thread.
C25_Witness ==
    \E t \in Workers :
        /\ w_pc[t] = "woken"
        /\ w_last[t] \in {"ok", "failed"}
        /\ w_timer[t] > 0
        /\ stop_event
        /\ ctl_pc = "joining"

\* The worker threads that execute the daemon loop.
LoopingWorkers == {t \in Workers : is_alive(t)}

(***************************************************************************)
(* C26: at most one worker thread executes the daemon loop at any time,    *)
(* whatever start() and stop() calls were made, and a start() that finds   *)
(* the daemon running creates no thread.                                   *)
(***************************************************************************)
C26_SingleWorker ==
    /\ [](Cardinality(LoopingWorkers) <= 1)
    /\ [][(running /\ ctl_pc = "idle" /\ ctl_pc' = "idle")
             => Spawned' = Spawned]_vars

\* What holds of start(): while the daemon runs, no call creates a thread.
C26_StartWhileRunning ==
    [][(running /\ ctl_pc = "idle" /\ ctl_pc' = "idle") => Spawned' = Spawned]_vars

\* Two workers are inside a cycle at once, with the daemon running.
TwoCyclesAtOnce ==
    /\ running
    /\ ~stop_event
    /\ \A t \in Workers : w_pc[t] = "cycle"

\* The worker's last cycle failed or raised, and it has not begun another.
AfterFailedCycle(t) ==
    /\ w_last[t] \in {"failed", "raised"}
    /\ w_pc[t] \in Waiting \cup {"check"}

(***************************************************************************)
(* C27: a cycle that fails or raises never ends the worker loop.  No       *)
(* cycle's end takes the worker out of the loop; a worker leaves the loop  *)
(* only when a stop was requested; after a failed cycle the worker waits   *)
(* out its timeout before the loop's test, and it enters another cycle     *)
(* unless a stop is requested.                                             *)
(***************************************************************************)
C27_LoopSurvivesFailure ==
    /\ [][\A t \in Workers : w_pc[t] = "cycle" => w_pc'[t] # "done"]_vars
    /\ [][\A t \in Workers :
             (w_pc[t] # "done" /\ w_pc'[t] = "done")
                => (w_pc[t] = "woken" \/ stop_event \/ ~running)]_vars
    /\ [][\A t \in Workers :
             (w_pc[t] \in Waiting /\ w_pc'[t] = "check") => w_timer[t] = 0]_vars
    /\ \A t \in Workers :
          AfterFailedCycle(t) ~> (w_pc[t] = "cycle" \/ stop_event)

\* A worker is in a new cycle after one that failed or raised.
C27_Witness ==
    \E t \in Workers :
        /\ w_last[t] \in {"failed", "raised"}
        /\ w_pc[t] = "cycle"
        /\ ~stop_event

(***************************************************************************)
(* The diff of the cycle, record by record.                                *)
(***************************************************************************)
\* The record's working copy after the step.
RecAfter(r) == enabled_zones'[ZoneOf(r)][r]

\* The step is the diff of the cycle.
DiffStep == pc = "process" /\ pc' # "process"

\* The address the cycle detected for the record's type.
TargetOf(r) == TargetIp(Rec(r).record_type, network)

\* The diff flags the record.
Flagged(r) == RecAfter(r).needs_update = "true"

\* The rule of the diff for a record it looks at.
DiffRule(r) ==
    IF Rec(r).provider_record_id = NoId THEN Flagged(r)
    ELSE Flagged(r) <=> Rec(r).current_ip # TargetOf(r)

\* C28 as the spec words it: the rule holds for every loaded record.
C28_AsStated ==
    [][DiffStep => \A r \in Loaded : DiffRule(r)]_vars

(***************************************************************************)
(* C28: the diff, for every loaded record for whose type an address was    *)
(* detected, flags the record when it lacks a provider_record_id, whatever *)
(* its cached address, and flags a record with a provider_record_id if     *)
(* and only if its cached address differs from the detected one; a record  *)
(* for whose type no address was detected is left as loaded, not flagged.  *)
(***************************************************************************)
C28_DiffRule ==
    [][DiffStep =>
          \A r \in Loaded :
              IF Truthy(TargetOf(r)) THEN DiffRule(r)
              ELSE RecAfter(r) = Rec(r) /\ ~Flagged(r)]_vars

\* The diff has flagged a record without provider_record_id whose cached
\* address equals the detected one.
C28_Witness ==
    /\ pc \in {"sync", "update"}
    /\ todo = LoopOrder(enabled_zones)
    /\ \E r \in Loaded :
          /\ Rec(r).provider_record_id = NoId
          /\ Truthy(TargetOf(r))
          /\ Rec(r).current_ip = TargetOf(r)
          /\ Rec(r).needs_update = "true"

(***************************************************************************)
(* The matching of the zone-level sync, record by record.                  *)
(***************************************************************************)
\* The provider record the sync of the step matches local record r with:
\* same type, same name once trailing dots are removed.
MatchOf(r) ==
    SyncMatch(provider, ZoneRecords(provider, records[r].zone_id), records[r])

\* The step created record r at the provider.
CreatedInStep(r) ==
    \E i \in 1..Len(NewCalls) :
        /\ NewCalls[i].op = "create_records"
        /\ NewCalls[i].record = r
        /\ NewCalls[i].result = "ok"

(***************************************************************************)
(* C29: a zone-level sync whose listing is answered gives every local      *)
(* record of the zone that matches a provider record by (name without      *)
(* trailing dot, type) the match's provider_record_id and sync_status      *)
(* 'synced', and leaves a record without a match as it was.                *)
(***************************************************************************)
C29_BackfillSynced ==
    [][\A r \in DOMAIN records :
          SyncListed(records[r].zone_id) =>
             IF MatchOf(r) # NoId
             THEN /\ records'[r].provider_record_id = MatchOf(r)
                  /\ records'[r].sync_status = "synced"
             ELSE CreatedInStep(r) \/ records'[r] = records[r]]_vars

\* What holds of the sync: a match gives its provider_record_id and leaves
\* sync_status; a record without a match that is not created is left.
C29_BackfillIdOnly ==
    [][\A r \in DOMAIN records :
          SyncListed(records[r].zone_id) =>
             IF MatchOf(r) # NoId
             THEN /\ records'[r].provider_record_id = MatchOf(r)
                  /\ records'[r].sync_status = records[r].sync_status
             ELSE CreatedInStep(r) \/ records'[r] = records[r]]_vars

(***************************************************************************)
(* run_cycle with a phase that fails as a whole: an exception reaches the  *)
(* handler of the step, the step returns False, and run_cycle calls        *)
(* _reset_state and returns False.  Every write made before it went        *)
(* through execute_update, which commits.                                  *)
(***************************************************************************)
\* Faulty variant: the working set is kept.
ResetStateKeeps(ws) == ws

\* _reset_state: self.enabled_zones = None
ResetState(ws) == <<>>

\* The phases after the load, which fails in StepLoadData.
PhasesAfterLoad == {"process", "sync", "update", "finalize"}

StepRaises ==
    /\ pc \in PhasesAfterLoad
    /\ enabled_zones' = ResetState(enabled_zones)
    /\ zones_to_sync' = {}
    /\ todo' = <<>>
    /\ pc' = "idle"
    /\ result' = FALSE
    /\ steady' = FALSE
    /\ UNCHANGED <<dbvars, provvars, cfgvars, network, provider_clients,
                   updates_succeeded, updates_failed, now, api_calls>>
    /\ UNCHANGED sidevars

CycleNext == Next \/ StepRaises

CycleSpec == Init /\ [][CycleNext]_vars

\* The order of the phases: from a phase to the next one, through the
\* zone-level syncs and the records of the converge phase, or back to idle
\* when run_cycle returns.
PhaseOrder ==
    {<<"idle", "process">>, <<"process", "sync">>, <<"process", "update">>,
     <<"process", "finalize">>, <<"sync", "update">>, <<"sync", "finalize">>,
     <<"update", "finalize">>, <<"finalize", "idle">>,
     <<"process", "idle">>, <<"sync", "idle">>, <<"update", "idle">>}

\* run_cycle returns in the step, with the result.
Returns(res) == pc' = "idle" /\ result' = res /\ (pc # "idle" \/ now' # now)

(***************************************************************************)
(* C30: run_cycle goes through load, diff, converge and finalize in that   *)
(* order, each phase only after the ones before it succeeded, and returns  *)
(* True only from finalize; a phase that fails makes it return False at    *)
(* once, with the working set emptied and the store, the provider and the  *)
(* audit log as the writes before the failure left them; whenever          *)
(* run_cycle has returned, the working set is empty.                       *)
(***************************************************************************)
C30_PhasesInOrder ==
    /\ [][pc' # pc => <<pc, pc'>> \in PhaseOrder]_vars
    /\ [][Returns(TRUE) => pc = "finalize"]_vars
    /\ [][Returns(FALSE) =>
             /\ UNCHANGED <<dbvars, provvars>>
             /\ enabled_zones' = <<>>]_vars
    /\ [](pc = "idle" => enabled_zones = <<>>)

\* run_cycle has returned False from the converge phase after an update
\* that was committed.
C30_Witness ==
    /\ pc = "idle"
    /\ result = FALSE
    /\ updates_succeeded > 0
    /\ dns_updates # <<>>
    /\ dns_updates[Len(dns_updates)].status = "success"
    /\ enabled_zones = <<>>

(***************************************************************************)
(* The order of the zone-level syncs and the record writes of a cycle.     *)
(***************************************************************************)
\* The step, inside a cycle, writes for a record: a provider update, an
\* IP-state row or an audit entry.
RecordWrite ==
    /\ pc # "idle"
    /\ \/ ip_addresses' # ip_addresses
       \/ dns_updates' # dns_updates
       \/ \E i \in 1..Len(NewCalls) : NewCalls[i].op = "update_record"

\* The step is the zone-level sync of zone z.
SyncStepOf(z) == pc = "sync" /\ z \in zones_to_sync /\ z \notin zones_to_sync'

(***************************************************************************)
(* C31: within a cycle the zone-level sync of a zone comes before any      *)
(* record write for the zone.  The diff queues the zone of every flagged   *)
(* record without provider_record_id; a record write is made only in the   *)
(* loop over the records, when no zone is left in the queue; the sync      *)
(* step of a zone, creation of missing records included, ends with the     *)
(* zone's in-memory records holding the provider ids of the store.         *)
(***************************************************************************)
C31_SyncBeforeWrites ==
    /\ [][DiffStep =>
             \A r \in Loaded :
                 (Flagged(r) /\ Rec(r).provider_record_id = NoId)
                    => ZoneOf(r) \in zones_to_sync']_vars
    /\ [][RecordWrite => pc = "update" /\ zones_to_sync = {}]_vars
    /\ [][\A z \in Zones :
             SyncStepOf(z) =>
                \A r \in DOMAIN enabled_zones'[z] :
                    enabled_zones'[z][r].provider_record_id
                        = records'[r].provider_record_id]_vars

\* A record of a zone was updated at the provider after the zone's sync
\* had created it and read its id back.
C31_Witness ==
    /\ pc \in {"update", "finalize"}
    /\ \E i, j, k \in 1..Len(api_calls) :
          /\ i < j /\ j < k
          /\ api_calls[i].op = "create_records" /\ api_calls[i].result = "ok"
          /\ api_calls[j].op = "get_zone_records" /\ api_calls[j].result = "ok"
          /\ api_calls[k].op = "update_record"
          /\ api_calls[k].zone = api_calls[i].zone
          /\ api_calls[k].record = api_calls[i].record

(***************************************************************************)
(* C32: an IP-state row's last_changed_at moves only in a write whose      *)
(* address differs from the stored one; a write of the stored address      *)
(* only refreshes last_checked_at.                                         *)
(***************************************************************************)
C32_BumpOnlyOnDifference ==
    [][\A r \in DOMAIN ip_addresses \cap DOMAIN ip_addresses' :
          ip_addresses'[r].last_changed_at # ip_addresses[r].last_changed_at
             => ip_addresses'[r].ip_address # ip_addresses[r].ip_address]_vars

\* What holds instead: a write made for an unflagged record keeps
\* last_changed_at and the address; last_changed_at moves only in the
\* write after a successful provider update, whatever the stored address.
C32_BumpOnSuccessfulUpdate ==
    [][\A r \in DOMAIN ip_addresses \cap DOMAIN ip_addresses' :
          /\ (pc = "update" /\ todo # <<>> /\ r = Head(todo)
                /\ Rec(r).needs_update # "true")
                => /\ ip_addresses'[r].last_changed_at
                          = ip_addresses[r].last_changed_at
                   /\ ip_addresses'[r].ip_address = ip_addresses[r].ip_address
          /\ (pc = "update"
                /\ ip_addresses'[r].last_changed_at
                      # ip_addresses[r].last_changed_at)
                => /\ r = Head(todo)
                   /\ UpdateAnswered("ok")
                   /\ ip_addresses'[r].ip_address = Rec(r).new_ip
                   /\ ip_addresses'[r].last_changed_at = now]_vars

(***************************************************************************)
(* The audit log of a cycle.                                               *)
(***************************************************************************)
\* The audit entries the cycle in progress has written for record r.
EntriesOfCycle(r) ==
    {i \in 1..Len(dns_updates) :
        dns_updates[i].record_id = r /\ dns_updates[i].updated_at = now}

\* The record is still waiting in the loop over the records.
Pending(r) == \E i \in 1..Len(todo) : todo[i] = r

ClientFairSpec == ClientSpec /\ WF_vars(HttpAttempt)

\* The call is in progress.
InCall == client_op # "none" /\ returned = "none"

\* Every attempt of the call so far met a transport failure.
AllAttemptsFailed == \A i \in 1..Len(wire) : wire[i] \in TransportFailures

EditNext ==
    \/ Next
    \/ \E r \in RecIds : EditRecord(r)

\* Every zone has a readable credential and daemon_sync_checks is on.
EditSpecInit == Init /\ sync_checks = TRUE /\ has_cred = Zones

EditSpec == EditSpecInit /\ [][EditNext]_vars

\* The record is disabled and only local: no provider_record_id, and
\* sync_status 'local_only'.
DisabledLocalOnly(r) ==
    /\ r \in DOMAIN records
    /\ ~records[r].enabled
    /\ records[r].sync_status = "local_only"
    /\ records[r].provider_record_id = NoId

(***************************************************************************)
(* C36: a reconciliation cycle never creates a provider record for a       *)
(* disabled record and never assigns it a provider_record_id: no step of   *)
(* a cycle sends a create call for a disabled record, and a record that    *)
(* is disabled, 'local_only' and without provider_record_id stays so in    *)
(* every step of a cycle.                                                  *)
(***************************************************************************)
C36_DisabledStaysLocal ==
    [][pc # "idle" =>
          /\ \A i \in 1..Len(NewCalls) :
                NewCalls[i].op = "create_records"
                   => records[NewCalls[i].record].enabled
          /\ \A r \in DOMAIN records :
                DisabledLocalOnly(r) => DisabledLocalOnly(r)']_vars

\* What holds of the loop over the records: only the zone-level sync
\* touches a disabled record; the load, the diff, the loop and the last
\* step leave its row as it is and send no call for it.
C36_OnlySyncTouchesDisabled ==
    [][(pc # "idle" /\ pc # "sync") =>
          \A r \in DOMAIN records :
              ~records[r].enabled =>
                  /\ records'[r] = records[r]
                  /\ \A i \in 1..Len(NewCalls) : NewCalls[i].record # r]_vars

\* The record's row is marked 'orphaned'.
Orphaned(r) == r \in DOMAIN records /\ records[r].sync_status = "orphaned"

(***************************************************************************)
(* C37: in every reachable state a record with sync_status 'orphaned' has  *)
(* a null provider_record_id, and a step that gives an orphaned record a   *)
(* provider_record_id also moves it out of 'orphaned'.                     *)
(***************************************************************************)
C37_OrphanedHasNoId ==
    /\ [](\A r \in DOMAIN records :
             Orphaned(r) => records[r].provider_record_id = NoId)
    /\ [][\A r \in DOMAIN records :
             (/\ Orphaned(r)
              /\ records[r].provider_record_id = NoId
              /\ records'[r].provider_record_id # NoId)
                => ~Orphaned(r)']_vars

\* What holds in the engine: the step that marks a record 'orphaned'
\* clears its provider_record_id in the same write, and an orphaned record
\* leaves 'orphaned' only in the loop's step of a successful update.
C37_OrphaningClearsId ==
    [][\A r \in DOMAIN records :
          /\ (~Orphaned(r) /\ Orphaned(r)')
                => records'[r].provider_record_id = NoId
          /\ (pc # "idle" /\ Orphaned(r) /\ ~Orphaned(r)')
                => /\ UpdateAnswered("ok")
                   /\ r = Head(todo)
                   /\ records'[r].sync_status = "synced"]_vars

\* The cached address of a record in the IP-state table tbl, if any.
CachedIp(tbl, r) == IF r \in DOMAIN tbl THEN tbl[r].ip_address ELSE NoIp

(***************************************************************************)
(* C38: within the engine a record's cached IP value changes only to the   *)
(* address the provider accepted in a successful update call for that      *)
(* record, in the step of that call; a step whose update failed or was     *)
(* not sent leaves every cached value as it was.                           *)
(***************************************************************************)
C38_CachedIpFollowsProvider ==
    [][pc # "idle" =>
          \A r \in RecIds :
              CachedIp(ip_addresses', r) # CachedIp(ip_addresses, r)
                 => /\ UpdateAnswered("ok")
                    /\ NewCalls[1].record = r
                    /\ NewCalls[1].content = CachedIp(ip_addresses', r)
                    /\ provider'[NewCalls[1].pid].content
                          = CachedIp(ip_addresses', r)]_vars

\* A cycle has replaced a record's cached address by the one the provider
\* accepted for it.
C38_Witness ==
    /\ pc \in {"update", "finalize"}
    /\ \E r \in Loaded :
          /\ Rec(r).needs_update = "true"
          /\ Rec(r).old_ip # Rec(r).new_ip
          /\ Rec(r).old_ip # NoIp
          /\ ~Pending(r)
          /\ Called("update_record", r, "ok")
          /\ CachedIp(ip_addresses, r) = Rec(r).new_ip

(***************************************************************************)
(* The credential store (table dyndns_config of src/src/database.py): the  *)
(* rows in rowid order, each with its zone, its bulk_id (UNIQUE) and the   *)
(* encrypted api_key.  The table has no UNIQUE constraint on zone_id.      *)
(***************************************************************************)
BulkIds == {1, 2}

\* The secrets a caller sets: two api keys, and the empty string.
Secrets == {Plain(<<"a">>), Plain(<<"b">>)}

ConfigRow(z, bulk_id, api_key) ==
    [zone_id |-> z, bulk_id |-> bulk_id, api_key |-> api_key]

\* SELECT * FROM dyndns_config WHERE zone_id = ?: a scan of the table, the
\* rows in rowid order.
RowsOfZone(tbl, z) ==
    LET OfZone(row) == row.zone_id = z
    IN SelectSeq(tbl, OfZone)

\* The UNIQUE constraint on bulk_id.
UniqueBulkIds(tbl) ==
    \A i, j \in DOMAIN tbl : tbl[i].bulk_id = tbl[j].bulk_id => i = j

\* Database.get_dyndns_config_by_zone: the api_key of the first row of the
\* zone, decrypted; None (NoOutput) without a row or when decrypt raises.
get_dyndns_config_by_zone(tbl, z) ==
    LET rows == RowsOfZone(tbl, z)
    IN IF rows = <<>> THEN NoOutput
       ELSE decrypt(rows[1].api_key).output

\* Database.set_dyndns_config(zone_id, bulk_id, api_key): UPDATE of the
\* zone's rows when the read returns a configuration, INSERT otherwise; a
\* statement that breaks the UNIQUE constraint raises and changes nothing.
set_dyndns_config(tbl, z, bulk_id, api_key, iv) ==
    LET e == encrypt(api_key, iv)
        existing == get_dyndns_config_by_zone(tbl, z)
        updated == [i \in DOMAIN tbl |->
                       IF tbl[i].zone_id = z THEN ConfigRow(z, bulk_id, e.output)
                       ELSE tbl[i]]
        inserted == Append(tbl, ConfigRow(z, bulk_id, e.output))
        after == IF existing # NoOutput THEN updated ELSE inserted
    IN IF e.raised # "none" THEN [raised |-> "ValueError", table |-> tbl]
       ELSE IF ~UniqueBulkIds(after)
       THEN [raised |-> "IntegrityError", table |-> tbl]
       ELSE [raised |-> "none", table |-> after]

SetDyndnsConfigCall ==
    /\ \E z \in Zones, bulk_id \in BulkIds, api_key \in Secrets \cup {EmptyString},
          iv \in Ivs :
          \E out \in {set_dyndns_config(dyndns_config, z, bulk_id, api_key, iv)} :
             /\ dyndns_config' = out.table
             /\ cfg_call' = [op |-> "set", zone |-> z, bulk_id |-> bulk_id,
                             api_key |-> api_key, raised |-> out.raised,
                             output |-> NoOutput]
    /\ UNCHANGED <<enginevars, menuvars, clientvars, poolvars, storevars, encvars,
                   daemonvars>>

GetDyndnsConfigCall ==
    /\ \E z \in Zones :
          cfg_call' = [op |-> "get", zone |-> z, bulk_id |-> 0,
                       api_key |-> EmptyString, raised |-> "none",
                       output |-> get_dyndns_config_by_zone(dyndns_config, z)]
    /\ UNCHANGED dyndns_config
    /\ UNCHANGED <<enginevars, menuvars, clientvars, poolvars, storevars, encvars,
                   daemonvars>>

\* The key file is gone when the program starts: _setup_encryption
\* generates a new key, and the tokens stored under the old one can no
\* longer be decrypted.
KeyFileReplaced ==
    /\ \E i \in DOMAIN dyndns_config : dyndns_config[i].api_key.key = encryption_key
    /\ dyndns_config' =
          [i \in DOMAIN dyndns_config |->
              [dyndns_config[i] EXCEPT
                  !.api_key.key = CHOOSE k \in Keys : k # encryption_key]]
    /\ cfg_call' = [NoConfigCall EXCEPT !.op = "key_replaced"]
    /\ UNCHANGED <<enginevars, menuvars, clientvars, poolvars, storevars, encvars,
                   daemonvars>>

ConfigNext ==
    \/ SetDyndnsConfigCall
    \/ GetDyndnsConfigCall
    \/ KeyFileReplaced

ConfigSpecInit == Init /\ sync_checks = TRUE /\ has_cred = Zones /\ next_pid = 1

ConfigSpec == ConfigSpecInit /\ [][ConfigNext]_vars

\* The last thing that happened is a set_dyndns_config call that returned.
SetReturned == cfg_call.op = "set" /\ cfg_call.raised = "none"

(***************************************************************************)
(* C39: after any sequence of set_dyndns_config calls for a zone, one made *)
(* while the stored secret is undecryptable included, the store holds at   *)
(* most one credential row for the zone, and a read that follows a call    *)
(* returns the credential set by it.                                       *)
(***************************************************************************)
C39_OneRowLastWins ==
    /\ \A z \in Zones : Len(RowsOfZone(dyndns_config, z)) <= 1
    /\ SetReturned =>
          get_dyndns_config_by_zone(dyndns_config, cfg_call.zone) = cfg_call.api_key

\* What holds: a call made while the zone has no row, or one row whose
\* secret can be read, leaves exactly one row for the zone, and the read
\* that follows returns the secret of the call.
C39_WhileReadable ==
    [][\A z \in Zones :
          (/\ cfg_call'.op = "set" /\ cfg_call'.raised = "none"
           /\ cfg_call'.zone = z
           /\ dyndns_config' # dyndns_config
           /\ \/ RowsOfZone(dyndns_config, z) = <<>>
              \/ /\ Len(RowsOfZone(dyndns_config, z)) = 1
                 /\ get_dyndns_config_by_zone(dyndns_config, z) # NoOutput)
             => /\ Len(RowsOfZone(dyndns_config', z)) = 1
                /\ get_dyndns_config_by_zone(dyndns_config', z)
                      = cfg_call'.api_key]_vars

\* The step runs application.cleanup(): a stop() that goes past its join,
\* or has none to make.
CleanupRuns ==
    /\ cleaned'
    /\ d_ret' = [op |-> "stop", result |-> TRUE]
    /\ \/ running /\ ~running'
       \/ ctl_pc = "joining" /\ ctl_pc' = "idle"

(***************************************************************************)
(* C40: the daemon never closes the store while a reconciliation cycle is  *)
(* still executing: in background and in foreground mode alike, the step   *)
(* that runs application.cleanup() finds every worker loop ended.          *)
(***************************************************************************)
C40_CleanupAfterLoop ==
    [][CleanupRuns => \A t \in Workers : ~is_alive(t)]_vars

\* The same for background mode alone, as long as no join has timed out:
\* what holds of start() and stop() by themselves.
C40_JoinedThreadEnded ==
    [][CleanupRuns =>
          \/ ctl_pc = "foreground"
          \/ IF daemon_thread = NoThread THEN TRUE
             ELSE ~is_alive(daemon_thread)]_vars

\* The store was closed under a cycle of the foreground loop.
CleanedUnderCycle ==
    /\ cleaned
    /\ ctl_pc = "foreground"
    /\ w_pc[main_loop] = "cycle"

====
